---- MODULE Spec2Model ----
(***************************************************************************)
(* A model of the ALS capture / replay pipeline of linkura-cli:            *)
(*   - the wire codec (PacketInfo::to_vec, encode_data_pack_custom_order,  *)
(*     StandardPacketReader::read_packet),                                 *)
(*   - the segment builder (SegmentBuilder) and the converter state        *)
(*     machine (ConversionContext),                                        *)
(*   - the auto-timestamp reconstruction,                                  *)
(*   - the capture client (Client) with its keepalive worker.              *)
(*                                                                         *)
(* Conventions.  Timestamps are integers in microseconds, counted from an  *)
(* epoch near the recording.  A frame carries the byte length of its       *)
(* encoded DataFrame message (frame.encode_to_vec().len()) in the field    *)
(* len; the bytes themselves are not modelled, their count is.  Booleans   *)
(* carried by a control are 1 / 0.                                         *)
(***************************************************************************)
EXTENDS Integers, Sequences, FiniteSets, TLC

VARIABLES
    \* ---- ConversionContext (converter.rs 413-430)
    state,               \* AlsConverterStateMachine
    data_room,           \* Room
    initial_timestamp,
    initial_dataframes,  \* Vec<DataFrame>
    split_write_mode,
    start_time,          \* Option<DateTime>: NoTime when None
    data_start_time,
    data_end_time,
    auto_timestamp,
    packetinfo_buffer,   \* Vec<PacketInfo>
    \* ---- SegmentBuilder (converter.rs 226-233)
    segments,            \* Vec<Segment>
    current_sequence,
    part_count,
    timeshift,
    \* ---- what the converter has written and seen (bookkeeping)
    written,             \* the segment lists handed to write / write_to_file
    last_add,            \* the last SegmentBuilder::add: its input and what it appended
    nprocessed,          \* packets read so far
    retimed_buffer,      \* packetinfo_buffer as the last reconstruction left it
    live_objects,        \* object_ids instantiated and not destroyed since
    headers,             \* per segment of the list: the resume list built for its header
    clock,               \* the timestamp of the last packet read
    last_packet,         \* the last packet read
    outcome,             \* "running", "finished", or the failure that ended the run
    \* ---- one record written by PacketInfo::to_vec and read back
    rt_packet,           \* the PacketInfo
    rt_record,           \* what to_vec wrote for it, NoRecord before
    rt_result,           \* what read_packet returned for it, NoResult before
    \* ---- Client and ClientRuntimeState (client.rs 62-117)
    stream,              \* Option<TcpStream>: "none" or "open"
    running_signal,
    reconnect_attempts,  \* the local of Client::run
    receive_buffer,      \* Vec<u8>
    saved_buffer,        \* Vec<u8>
    client_state,        \* runtime_state.state: "Auth", "Join", "ReceivingData"
    data_prefix,         \* the wall-clock second the prefix is made of
    data_index,
    keepalive_enabled,
    keepalive_handle,    \* the worker: "none", "waiting", "sending", "exited"
    keepalive_rx,        \* sockets in the channel to the worker
    main_pc,             \* where Client::run is: "loop", "disconnect", "joining", "done"
    returned,            \* what Client::run returned: "no", "ok", "fatal"
    \* ---- the world around the client
    inbound,             \* bytes the server has sent that the client has not read
    now,                 \* the wall clock, in seconds
    files,               \* the data directory: path -> bytes
    sent,                \* the requests the client has written to the socket
    \* ---- bookkeeping of the current connection
    nsent,               \* messages the server has sent so far
    spliced,             \* the messages removed from the receive buffer
    flushed,             \* the bytes written to files
    \* ---- MixedPacketReader (reader.rs 169-173) on one capture file
    mixed_file,          \* the bytes of the file not read yet
    mixed_state,         \* MixedReaderState
    pending_protobuf,    \* Option<(DataPack, Vec<u8>)>: <<>> or <<pair>>
    mixed_yielded,       \* the packets read_packet has returned
    mixed_last,          \* what the last read_packet returned
    mixed_source,        \* bookkeeping: the pairs the file was made of, and its cut
    \* ---- one call of AlsPacket::get_varint or AlsPacket::to_bytes (packet.rs)
    pk_call,             \* the call and its argument
    pk_result,           \* what it returned, or that it panicked
    \* ---- Editor (editor.rs 14-31) and the run of Editor::process
    target_timeline_ids,
    timeshift_ms,        \* Option<i64>: <<>> when None, <<ms>> when Some(ms)
    timeline_receiver_objects,
    modified_states,     \* HashMap<i32, Vec<u8>>, a function on the ids it holds
    current_timeline_index,
    ed_input,            \* the .ts files of the input directory, in name order
    ed_cursor,           \* the file and the record process is at, has_seen_cache_ended
    ed_output,           \* the records written, per output file
    \* handle_auto_timestamp called on a buffer of its own
    range_call,          \* the buffer and the arguments of the call
    range_result,        \* Ok or Err, and the buffer after the call
    \* analyze_file (proto/application.rs)
    af_input,            \* what read_packets returned, the filter, max_packets
    af_loop,             \* packet_count, processed_count, where the loop is
    analyzer,            \* the statistics of the PacketAnalyzer of the file
    af_analyzed,         \* the indices of the packets given to analyze_packet
    \* two analyzers and their merge (proto/analyzer.rs)
    merge_phase,         \* "feeding" or "merged"
    analyzer_a,          \* the statistics of the analyzer that processes A
    analyzer_b,          \* the statistics of the analyzer that processes B
    analyzer_single,     \* the statistics of the one that processes A, then B
    merged,              \* the statistics after merge, in both directions
    \* ---- PacketsBufferReader (proto/reader.rs 416-425) and its input
    current_reader,      \* Option<reader>: <<>> or <<the file and what is read of it>>
    file_entries,        \* VecDeque<DirEntry>: the files not opened yet
    limits,              \* ReaderLimits
    total_packets_read,
    files_processed,
    current_file_packets,
    pb_queue,            \* the queue handed to new: the packets of each file
    pb_opened,           \* the files opened, in order
    pb_results           \* what each call of read_packet returned, in order

convVars == <<state, data_room, initial_timestamp, initial_dataframes,
              split_write_mode, start_time, data_start_time, data_end_time,
              auto_timestamp, packetinfo_buffer>>
builderVars == <<segments, current_sequence, part_count, timeshift>>
bookVars == <<written, last_add, nprocessed, retimed_buffer, live_objects,
             headers, clock, last_packet, outcome>>

codecVars == <<rt_packet, rt_record, rt_result>>

clientVars == <<stream, running_signal, reconnect_attempts, receive_buffer,
               saved_buffer, client_state, data_prefix, data_index,
               keepalive_enabled, keepalive_handle, keepalive_rx, main_pc,
               returned, inbound, now, files, sent, nsent, spliced, flushed>>

mixedVars == <<mixed_file, mixed_state, pending_protobuf, mixed_yielded,
              mixed_last, mixed_source>>

packetVars == <<pk_call, pk_result>>

editorVars == <<target_timeline_ids, timeshift_ms, timeline_receiver_objects,
               modified_states, current_timeline_index, ed_input, ed_cursor,
               ed_output>>

spreadVars == <<range_call, range_result>>

analyzeVars == <<af_input, af_loop, analyzer, af_analyzed>>

mergeVars == <<merge_phase, analyzer_a, analyzer_b, analyzer_single, merged>>

bufferVars == <<current_reader, file_entries, limits, total_packets_read,
               files_processed, current_file_packets, pb_queue, pb_opened,
               pb_results>>

moreVars == <<spreadVars, analyzeVars, mergeVars, bufferVars>>

toolVars == <<mixedVars, packetVars, editorVars, moreVars>>

vars == <<convVars, builderVars, bookVars, codecVars, clientVars, toolVars>>

-----------------------------------------------------------------------------
(* Small helpers *)

\* Option::None of a time; every time of the model is at or after 0.
NoTime == 0 - 1

Min(a, b) == IF a < b THEN a ELSE b

RECURSIVE SumSeq(_)
SumSeq(s) == IF s = <<>> THEN 0 ELSE Head(s) + SumSeq(Tail(s))

RECURSIVE Flatten(_)
Flatten(ss) == IF ss = <<>> THEN <<>> ELSE Head(ss) \o Flatten(Tail(ss))

Last(s) == s[Len(s)]

-----------------------------------------------------------------------------
(* Data model: DataFrame, DataPack.control, PacketInfo *)

Frame(kind, object_id, prefab_name, owner_id, target, payload, len) ==
    [kind |-> kind, object_id |-> object_id, prefab_name |-> prefab_name,
     owner_id |-> owner_id, target |-> target, payload |-> payload, len |-> len]

NoControl == [tag |-> "None", value |-> 0]
Data(b) == [tag |-> "Data", value |-> b]
Pong(b) == [tag |-> "Pong", value |-> b]
SegmentStartedAt(v) == [tag |-> "SegmentStartedAt", value |-> v]
CacheEnded(b) == [tag |-> "CacheEnded", value |-> b]

PacketInfo(timestamp, control, frames) ==
    [timestamp |-> timestamp, control |-> control, frames |-> frames]

IsInstantiate(f) == f.kind = "InstantiateObject"
IsUpdate(f) == f.kind = "UpdateObject"
IsDestroy(f) == f.kind = "DestroyObject"

-----------------------------------------------------------------------------
(* Wire codec: proto/mod.rs *)

\* prost::encoding::encode_varint: the number of bytes of a base-128 varint.
\* A negative i64 cast to u64 takes ten bytes.
VarintLen(n) ==
    IF n < 0 THEN 10
    ELSE IF n < 128 THEN 1
    ELSE IF n < 16384 THEN 2
    ELSE IF n < 2097152 THEN 3
    ELSE IF n < 268435456 THEN 4
    ELSE 5

\* encode_key(field, wire_type): the varint of (field << 3) | wire_type.
KeyLen(field) == VarintLen(field * 8)

\* One field of an encoded DataPack, as written: its field number, the frame
\* it carries (field 16) or the control value (fields 2, 10, 14, 15), and its
\* byte count.
FrameField(f) ==
    [field |-> 16, frame |-> f, value |-> 0,
     nbytes |-> KeyLen(16) + VarintLen(f.len) + f.len]

ControlFieldNumber(control) ==
    CASE control.tag = "Data" -> 2
      [] control.tag = "Pong" -> 10
      [] control.tag = "SegmentStartedAt" -> 14
      [] control.tag = "CacheEnded" -> 15

NoFrame == Frame("None", 0, "", "", "None", 0, 0)

ControlField(control) ==
    [field |-> ControlFieldNumber(control), frame |-> NoFrame,
     value |-> control.value,
     nbytes |-> KeyLen(ControlFieldNumber(control)) + VarintLen(control.value)]

\* encode_frame appended for every frame, in list order.
EncodeFrames(frames) == [i \in 1..Len(frames) |-> FrameField(frames[i])]

\* A variant of the encoder that writes the control in field-number order
\* (before field 16), as a generated encoder would.
encode_data_pack_field_order(data_pack) ==
    (IF data_pack.control.tag = "None" THEN <<>>
     ELSE <<ControlField(data_pack.control)>>)
    \o EncodeFrames(data_pack.frames)

\* encode_data_pack_custom_order: frames first, then the control.
encode_data_pack_custom_order(data_pack) ==
    EncodeFrames(data_pack.frames)
    \o (IF data_pack.control.tag = "None" THEN <<>>
        ELSE <<ControlField(data_pack.control)>>)

FieldsLen(fields) == SumSeq([i \in 1..Len(fields) |-> fields[i].nbytes])

protobuf_to_vec(p) == encode_data_pack_custom_order(p)

\* PacketInfo::frame_to_vec(frame).len()
frame_to_vec_len(f) == FrameField(f).nbytes

U16 == 65536

\* PacketInfo::to_vec: u16 length | marker 0x01 | i64 micros | protobuf.
\* `9 + data_pack_bytes.len() as u16` is computed in 16 bits.
to_vec(p) ==
    LET data_pack_bytes == protobuf_to_vec(p) IN
    [length |-> (9 + (FieldsLen(data_pack_bytes) % U16)) % U16,
     marker |-> 1,
     timestamp_micros |-> p.timestamp,
     fields |-> data_pack_bytes]

\* The number of bytes of a written record.
to_vec_len(p) == 2 + 1 + 8 + FieldsLen(protobuf_to_vec(p))


-----------------------------------------------------------------------------
(* StandardPacketReader::read_packet (proto/reader.rs 91-147), reading a    *)
(* file that holds exactly the written record w.                            *)

\* The longest prefix of fields whose bytes fit in n, and the bytes it takes.
RECURSIVE TakeFields(_, _)
TakeFields(fields, n) ==
    IF fields = <<>> \/ Head(fields).nbytes > n THEN <<>>
    ELSE <<Head(fields)>> \o TakeFields(Tail(fields), n - Head(fields).nbytes)

\* DataPack::decode: every field 16 is pushed to frames in order; the control
\* is a oneof, the last control field read wins.
RECURSIVE DecodeControl(_, _)
DecodeControl(fields, acc) ==
    IF fields = <<>> THEN acc
    ELSE LET h == Head(fields) IN
         DecodeControl(Tail(fields),
            CASE h.field = 2 -> Data(h.value)
              [] h.field = 10 -> Pong(h.value)
              [] h.field = 14 -> SegmentStartedAt(h.value)
              [] h.field = 15 -> CacheEnded(h.value)
              [] OTHER -> acc)

DecodeFrames(fields) ==
    LET fs == SelectSeq(fields, LAMBDA h : h.field = 16) IN
    [i \in 1..Len(fs) |-> fs[i].frame]

ReadError(why) ==
    [ok |-> FALSE, why |-> why, timestamp |-> 0, control |-> NoControl,
     frames |-> <<>>, consumed |-> 0]

read_packet(w) ==
    IF w.length < 9 THEN ReadError("Invalid packet length")
    ELSE IF w.marker # 1 THEN ReadError("Invalid marker byte")
    ELSE LET data_length == w.length - 9
             data == TakeFields(w.fields, data_length)
         IN  IF data_length > FieldsLen(w.fields)
             THEN ReadError("Failed to read protobuf data")
             ELSE IF FieldsLen(data) # data_length
             THEN ReadError("Failed to decode protobuf data")
             ELSE [ok |-> TRUE, why |-> "", timestamp |-> w.timestamp_micros,
                   control |-> DecodeControl(data, NoControl),
                   frames |-> DecodeFrames(data),
                   consumed |-> 2 + 1 + 8 + data_length]

-----------------------------------------------------------------------------
(* SegmentBuilder (converter.rs 203-309) *)

\* The byte budget of one replay packet: `15 * 1024` (converter.rs 253, 258).
PacketByteBudget == 15 * 1024

Segment(sequence) == [number |-> sequence, duration |-> 0, packets |-> <<>>]

\* The frame loop of SegmentBuilder::add (converter.rs 256-283): check_len is
\* check_buf.len(), out the packets handed to segment.add so far.
RECURSIVE SplitFrames(_, _, _, _, _)
SplitFrames(p, i, check_len, packets_buf, out) ==
    IF i > Len(p.frames)
    THEN IF packets_buf # <<>>
         THEN Append(out, PacketInfo(p.timestamp, p.control, packets_buf))
         ELSE out
    ELSE LET f == p.frames[i]
             n == frame_to_vec_len(f)
         IN  IF check_len + n < PacketByteBudget
             THEN SplitFrames(p, i + 1, check_len + n, Append(packets_buf, f), out)
             ELSE SplitFrames(p, i + 1, 0, <<>>,
                     Append(out, PacketInfo(p.timestamp, p.control, packets_buf)))

\* The packets SegmentBuilder::add appends to the current segment for
\* packet_info (whose timestamp is already shifted).
AddedPackets(packet_info) ==
    IF to_vec_len(packet_info) >= PacketByteBudget
    THEN SplitFrames(packet_info, 1, 0, <<>>, <<>>)
    ELSE <<packet_info>>

\* TimeDelta::microseconds(self.timeshift) (converter.rs 249)
Shifted(packet_info, shift) ==
    [packet_info EXCEPT !.timestamp = packet_info.timestamp + shift]

\* SegmentBuilder::add on the segment list segs; nothing happens when the
\* list is empty (converter.rs 250).
add(segs, shift, packet_info) ==
    IF segs = <<>> THEN segs
    ELSE [segs EXCEPT ![Len(segs)].packets =
              @ \o AddedPackets(Shifted(packet_info, shift))]

\* SegmentBuilder::next (converter.rs 291-295)
next(segs, seq) == Append(segs, Segment(seq))

\* SegmentBuilder::set_current_segment_duration (converter.rs 304-309);
\* durations are kept in microseconds.
set_current_segment_duration(segs, duration) ==
    IF segs = <<>> THEN segs ELSE [segs EXCEPT ![Len(segs)].duration = duration]

\* PacketInfo::create_segment_started_packet / create_room_frame /
\* create_cache_end (proto/mod.rs 112-147)
create_segment_started_packet(timestamp) ==
    PacketInfo(timestamp, SegmentStartedAt(timestamp), <<>>)

RoomFrame(room) == Frame("Room", 0, "", "", "None", room.id, room.len)

create_room_frame(timestamp, room) ==
    PacketInfo(timestamp, Data(1), <<RoomFrame(room)>>)

create_cache_end(timestamp) == PacketInfo(timestamp, CacheEnded(1), <<>>)

-----------------------------------------------------------------------------
(* ConversionContext: the initial-dataframes list (converter.rs 490-524,    *)
(* 875-933)                                                                 *)

\* name.contains(pattern) for the prefab names of the model, which are the
\* patterns themselves or names that hold none of them.
Contains(name, pattern) == name = pattern

\* The last index of dataframes with an InstantiateObject satisfying a test
\* (LastIndex of the set of matching indices), 0 when there is none.  The loop of swap_order overwrites the index
\* at every match, and tests Cameraman only when FixedCamera does not match.
IsFixedCamera(f) ==
    IsInstantiate(f) /\ Contains(f.prefab_name, "Camera/FixedCamera")
IsCameraman(f) ==
    /\ IsInstantiate(f)
    /\ ~Contains(f.prefab_name, "Camera/FixedCamera")
    /\ Contains(f.prefab_name, "Camera/Cameraman")

LastIndex(hits) ==
    IF hits = {} THEN 0 ELSE CHOOSE i \in hits : \A j \in hits : j <= i

SwapAt(s, i, j) == [s EXCEPT ![i] = s[j], ![j] = s[i]]

\* swap_order (converter.rs 490-512): swaps when fixed_idx > cameraman_idx.
swap_order(dataframes) ==
    LET indices == 1..Len(dataframes)
        fixed_idx == LastIndex({i \in indices : IsFixedCamera(dataframes[i])})
        cameraman_idx == LastIndex({i \in indices : IsCameraman(dataframes[i])})
    IN  IF fixed_idx # 0 /\ cameraman_idx # 0 /\ fixed_idx > cameraman_idx
        THEN SwapAt(dataframes, fixed_idx, cameraman_idx)
        ELSE dataframes

\* A comparison that orders nothing.
compare_nothing(a, b) == "Equal"

\* compare_dataframes (converter.rs 514-524)
compare_dataframes(a, b) ==
    CASE IsInstantiate(a) /\ IsInstantiate(b) -> "Equal"
      [] IsInstantiate(a) /\ ~IsInstantiate(b) -> "Less"
      [] ~IsInstantiate(a) /\ IsInstantiate(b) -> "Greater"
      [] OTHER -> "Equal"

\* Vec::sort_by, a stable sort: x goes before the first element it is Less
\* than, after everything else.
RECURSIVE InsertStable(_, _)
InsertStable(sorted, x) ==
    IF sorted = <<>> THEN <<x>>
    ELSE IF compare_dataframes(x, Last(sorted)) = "Less"
         THEN Append(InsertStable(SubSeq(sorted, 1, Len(sorted) - 1), x), Last(sorted))
         ELSE Append(sorted, x)

RECURSIVE SortFrom(_, _)
SortFrom(sorted, rest) ==
    IF rest = <<>> THEN sorted
    ELSE SortFrom(InsertStable(sorted, Head(rest)), Tail(rest))

sort_by_compare_dataframes(dataframes) == SortFrom(<<>>, dataframes)

\* A copy that keeps the target it came with.
KeepTarget(dataframe) == dataframe

\* The copy kept in the list targets CurrentPlayer (converter.rs 909-927).
ToCurrentPlayer(dataframe) ==
    IF IsInstantiate(dataframe) \/ IsUpdate(dataframe)
    THEN [dataframe EXCEPT !.target = "CurrentPlayer"]
    ELSE dataframe

\* insert_initial_dataframes (converter.rs 908-933)
insert_initial_dataframes(dataframes, dataframe) ==
    sort_by_compare_dataframes(
        swap_order(Append(dataframes, ToCurrentPlayer(dataframe))))

\* update_initial_dataframes (converter.rs 875-907): the first UpdateObject
\* entry of the same object_id is replaced in place, else the frame is
\* inserted.
update_initial_dataframes(dataframes, dataframe) ==
    LET hits == {i \in 1..Len(dataframes) :
                    /\ IsUpdate(dataframes[i]) /\ IsUpdate(dataframe)
                    /\ dataframes[i].object_id = dataframe.object_id}
    IN  IF hits # {}
        THEN LET i == CHOOSE k \in hits : \A j \in hits : k <= j IN
             [dataframes EXCEPT ![i] = ToCurrentPlayer(dataframe)]
        ELSE insert_initial_dataframes(dataframes, dataframe)

\* The retain of DestroyObject (converter.rs 834-843, 1266-1278)
remove_object(dataframes, object_id) ==
    SelectSeq(dataframes,
        LAMBDA f : ~((IsInstantiate(f) \/ IsUpdate(f)) /\ f.object_id = object_id))

-----------------------------------------------------------------------------
(* ConversionContext: packet processing (converter.rs 526-869).  The        *)
(* operators below take the context as a record c and return the context    *)
(* after the call.                                                          *)

DURATION == 10 * 1000 * 1000

Ctx ==
    [state |-> state, data_room |-> data_room,
     initial_timestamp |-> initial_timestamp,
     initial_dataframes |-> initial_dataframes,
     start_time |-> start_time, data_start_time |-> data_start_time,
     packetinfo_buffer |-> packetinfo_buffer,
     segments |-> segments, current_sequence |-> current_sequence,
     part_count |-> part_count,
     written |-> written, last_add |-> last_add,
     retimed_buffer |-> retimed_buffer, live_objects |-> live_objects,
     headers |-> headers, outcome |-> outcome]

NoAdd == [input |-> PacketInfo(0, NoControl, <<>>), output |-> <<>>, called |-> FALSE]

\* segment_builder.add(packet_info)
BuilderAdd(c, packet_info) ==
    IF c.segments = <<>> THEN c
    ELSE [c EXCEPT !.segments = add(@, timeshift, packet_info),
                   !.last_add = [input |-> Shifted(packet_info, timeshift),
                                 output |-> AddedPackets(Shifted(packet_info, timeshift)),
                                 called |-> TRUE]]

\* A start that leaves the part counter alone
StartSamePart(c) ==
    [c EXCEPT !.segments = next(<<>>, 0), !.current_sequence = 1]

\* segment_builder.start() (converter.rs 297-302)
BuilderStart(c) ==
    [c EXCEPT !.segments = next(<<>>, 0), !.current_sequence = 1,
              !.part_count = @ + 1]

\* segment_builder.next() (converter.rs 291-295)
BuilderNext(c) ==
    [c EXCEPT !.segments = next(@, c.current_sequence),
              !.current_sequence = @ + 1]

\* Bookkeeping: what the header of a segment was built from.  The first
\* segment of a part gets no resume packet.
NoResume == [first |-> TRUE, resume |-> <<>>, live |-> {}]
ResumeOf(c) == [first |-> FALSE, resume |-> c.initial_dataframes,
                live |-> c.live_objects]

\* The header of a part's first segment (converter.rs 634-641, 1224-1231)
FirstHeader(c, timestamp) ==
    BuilderAdd(BuilderAdd(BuilderAdd(
        BuilderStart([c EXCEPT !.headers = <<NoResume>>]),
        create_segment_started_packet(timestamp)),
        create_room_frame(timestamp, c.data_room)),
        create_cache_end(timestamp))

\* The header of a rollover segment (converter.rs 750-768, 1236-1254); c
\* already holds the advanced initial_timestamp.
RolloverHeader(c, timestamp) ==
    BuilderAdd(BuilderAdd(BuilderAdd(BuilderAdd(
        BuilderNext([c EXCEPT !.segments = set_current_segment_duration(@, DURATION),
                              !.headers = Append(@, ResumeOf(c))]),
        create_segment_started_packet(c.initial_timestamp)),
        create_room_frame(timestamp, c.data_room)),
        PacketInfo(timestamp, Data(1), c.initial_dataframes)),
        create_cache_end(timestamp))

\* The records written to segment_NNNNN.ts, one file per segment
\* (converter.rs 347-358)
SegmentFiles(segs) ==
    [k \in 1..Len(segs) |->
        [i \in 1..Len(segs[k].packets) |-> to_vec(segs[k].packets[i])]]

\* SegmentBuilder::write / write_to_file (converter.rs 313-408): unwrap on an
\* empty segment list or an empty last segment panics; else the last
\* segment's duration is measured and every segment is written.
BuilderWrite(c) ==
    IF c.segments = <<>> \/ Last(c.segments).packets = <<>>
    THEN [c EXCEPT !.outcome = "panic: unwrap on None in write_to_file"]
    ELSE LET last_segment == Last(c.segments)
             segs == [c.segments EXCEPT ![Len(c.segments)].duration =
                         Last(last_segment.packets).timestamp
                         - Head(last_segment.packets).timestamp]
         IN  [c EXCEPT !.segments = segs,
                       !.written = Append(@, [part_count |-> c.part_count,
                                              segments |-> segs,
                                              files |-> SegmentFiles(segs)])]

\* The rewrite of targets done on the emitted frames (converter.rs 644-666,
\* 787-827)
ToRoomAll(frame) ==
    CASE IsInstantiate(frame) ->
            [frame EXCEPT !.target = "RoomAll", !.owner_id = "sys"]
      [] IsUpdate(frame) -> [frame EXCEPT !.target = "RoomAll"]
      [] OTHER -> frame

RewriteFirst(frames) == [i \in 1..Len(frames) |-> ToRoomAll(frames[i])]

\* Bookkeeping: the object_ids instantiated and not destroyed since, after
\* the frames have been processed in order.
RECURSIVE LiveAfter(_, _)
LiveAfter(live, frames) ==
    IF frames = <<>> THEN live
    ELSE LET f == Head(frames) IN
         LiveAfter(CASE IsInstantiate(f) -> live \cup {f.object_id}
                     [] IsDestroy(f) -> live \ {f.object_id}
                     [] OTHER -> live,
                   Tail(frames))

RECURSIVE InsertAll(_, _)
InsertAll(dataframes, frames) ==
    IF frames = <<>> THEN dataframes
    ELSE InsertAll(insert_initial_dataframes(dataframes, Head(frames)), Tail(frames))

\* process_initial_state (converter.rs 574-601)
process_initial_state(c, data_packet) ==
    IF data_packet.frames = <<>>
    THEN [c EXCEPT !.outcome = "error: No DataFrame found in initial fragment"]
    ELSE LET frame == Head(data_packet.frames) IN
         CASE frame.kind = "None" ->
                [c EXCEPT !.outcome = "error: No message in DataFrame"]
           [] frame.kind = "JoinRoomResponse" ->
                [c EXCEPT !.state = "FirstDataframes"]
           [] frame.kind = "Room" ->
                [c EXCEPT !.data_room = [id |-> frame.payload, len |-> frame.len]]
           [] OTHER -> c

\* process_first_dataframes_state (converter.rs 604-682)
process_first_dataframes_state(c, packet_info) ==
    IF packet_info.control # Data(1) THEN c
    ELSE IF packet_info.frames = <<>> \/ ~IsInstantiate(Head(packet_info.frames)) THEN c
    ELSE IF c.start_time # NoTime /\ packet_info.timestamp < c.start_time THEN c
    ELSE
    LET timestamp == packet_info.timestamp
        c1 == [c EXCEPT !.start_time = NoTime, !.initial_timestamp = timestamp]
        c2 == IF ~auto_timestamp THEN FirstHeader(c1, timestamp) ELSE c1
        rewritten == [packet_info EXCEPT !.frames = RewriteFirst(@)]
        c3 == [c2 EXCEPT !.initial_dataframes = InsertAll(@, rewritten.frames),
                         !.live_objects = LiveAfter(@, rewritten.frames)]
        c4 == IF auto_timestamp
              THEN [c3 EXCEPT !.packetinfo_buffer = Append(@, rewritten)]
              ELSE BuilderAdd(c3, rewritten)
    IN  [c4 EXCEPT !.state = "UpdateObjects"]

\* frames.retain (converter.rs 774-785)
Retained(frames) ==
    SelectSeq(frames, LAMBDA f : IsUpdate(f) \/ IsInstantiate(f) \/ IsDestroy(f))

\* The target rewrite of the frame loop (converter.rs 787-847)
ToRoomAllUpdate(frame) ==
    IF IsDestroy(frame) THEN [frame EXCEPT !.target = "RoomAll"] ELSE ToRoomAll(frame)

\* The mirror of one emitted frame into the initial-dataframes list
MirrorFrame(dataframes, frame) ==
    CASE IsUpdate(frame) -> update_initial_dataframes(dataframes, frame)
      [] IsInstantiate(frame) -> insert_initial_dataframes(dataframes, frame)
      [] IsDestroy(frame) -> remove_object(dataframes, frame.object_id)
      [] OTHER -> dataframes

RECURSIVE MirrorAll(_, _)
MirrorAll(dataframes, frames) ==
    IF frames = <<>> THEN dataframes
    ELSE MirrorAll(MirrorFrame(dataframes, Head(frames)), Tail(frames))

\* A rewrite that leaves the filter set
KeepFilter(c, timestamp) == [c EXCEPT !.initial_timestamp = timestamp]

\* The first-segment rewrite done when data_start_time is passed
\* (converter.rs 716-741)
RewriteFirstSegment(c, timestamp) ==
    LET retimed == [i \in 1..Len(c.segments[1].packets) |->
                        [c.segments[1].packets[i] EXCEPT !.timestamp = timestamp]]
        new_initial_packet ==
            [create_room_frame(timestamp, c.data_room) EXCEPT
                !.frames = @ \o c.initial_dataframes]
        packets == IF retimed = <<>> THEN retimed
                   ELSE Append(SubSeq(retimed, 1, Len(retimed) - 1), new_initial_packet)
    IN  [c EXCEPT !.data_start_time = NoTime,
                  !.initial_timestamp = timestamp,
                  !.segments[1].packets = packets]

\* process_update_objects_state (converter.rs 684-869)
process_update_objects_state(c, packet_info) ==
    IF packet_info.control.tag = "Pong" THEN [c EXCEPT !.state = "Pong"]
    ELSE IF packet_info.control.tag # "None" /\ packet_info.control # Data(1) THEN c
    ELSE
    LET timestamp == packet_info.timestamp
        c0 == IF packet_info.control = Data(1)
              THEN [c EXCEPT !.state = "UpdateObjects"] ELSE c
        use_custom_data_start_time ==
            ~auto_timestamp /\ c0.data_start_time # NoTime
            /\ timestamp < c0.data_start_time
        c1 == IF ~auto_timestamp /\ c0.data_start_time # NoTime
                 /\ ~(timestamp < c0.data_start_time)
              THEN RewriteFirstSegment(c0, timestamp) ELSE c0
        c2 == IF ~auto_timestamp /\ timestamp - c1.initial_timestamp > DURATION
              THEN LET adv == [c1 EXCEPT !.initial_timestamp = @ + DURATION] IN
                   IF ~use_custom_data_start_time
                   THEN RolloverHeader(adv, timestamp) ELSE adv
              ELSE c1
        frames == [i \in 1..Len(Retained(packet_info.frames)) |->
                      ToRoomAllUpdate(Retained(packet_info.frames)[i])]
        emitted == [packet_info EXCEPT !.frames = frames]
        c3 == [c2 EXCEPT !.initial_dataframes = MirrorAll(@, frames),
                         !.live_objects = LiveAfter(@, frames)]
    IN  IF frames = <<>> \/ use_custom_data_start_time THEN c3
        ELSE IF split_write_mode /\ c3.initial_dataframes = <<>>
        THEN [c3 EXCEPT !.state = "Split"]
        ELSE IF auto_timestamp
        THEN [c3 EXCEPT !.packetinfo_buffer = Append(@, emitted)]
        ELSE BuilderAdd(c3, emitted)

-----------------------------------------------------------------------------
(* Auto-timestamp reconstruction (converter.rs 940-1288).  Buffer indices   *)
(* are 1-based here.  The payload of an UpdateObject of the DateTimeReceiver *)
(* is the instant try_parse_date_time decodes from it; a negative payload   *)
(* stands for one that does not parse.                                      *)

SetTimestamp(buffer, i, t) == [buffer EXCEPT ![i].timestamp = t]

\* Whether a packet holds an UpdateObject of a music broadcaster
\* (converter.rs 976-984)
IsMusicPacket(packet_info, music_broadcasters) ==
    \E i \in 1..Len(packet_info.frames) :
        /\ IsUpdate(packet_info.frames[i])
        /\ packet_info.frames[i].object_id \in music_broadcasters

\* buffer[from..to] get base + step * 1, base + step * 2, ...
RECURSIVE Spread(_, _, _, _, _)
Spread(buffer, from, to, base, step) ==
    IF from > to THEN buffer
    ELSE Spread(SetTimestamp(buffer, from, base + step), from + 1, to, base + step, step)

\* The loop over packet_infos of the music case (converter.rs 1035-1071):
\* k is the buffer index looked at, seg_start the first index of the current
\* music segment.  Returns the buffer, current_time and seg_start at the end.
RECURSIVE MusicLoop(_, _, _, _, _, _, _)
MusicLoop(buffer, k, end_index, seg_start, current_time, slice, music) ==
    IF k > end_index
    THEN [buffer |-> buffer, current_time |-> current_time, seg_start |-> seg_start]
    ELSE IF IsMusicPacket(buffer[k], music)
    THEN LET before == k - seg_start
             b1 == IF before > 0
                   THEN Spread(buffer, seg_start, k - 1, current_time,
                               slice \div (before + 1))
                   ELSE buffer
             b2 == SetTimestamp(b1, k, current_time + slice)
         IN  MusicLoop(b2, k + 1, end_index, k + 1, current_time + slice, slice, music)
    ELSE MusicLoop(buffer, k + 1, end_index, seg_start, current_time, slice, music)

\* The number of packets of the range holding a music update
MusicPacketCount(buffer, start_index, end_index, music_broadcasters) ==
    Cardinality({i \in start_index..end_index :
                    IsMusicPacket(buffer[i], music_broadcasters)})

\* A spread that starts one step after last_timestamp
SpreadFromNext(buffer, start_index, end_index, last_timestamp, cur_timestamp, time_step) ==
    SetTimestamp(Spread(buffer, start_index, end_index, last_timestamp, time_step),
                 end_index, cur_timestamp)

\* Without music packets the range is spread evenly, its last packet getting
\* cur_timestamp.
SpreadEvenly(buffer, start_index, end_index, last_timestamp, cur_timestamp, time_step) ==
    SetTimestamp(Spread(buffer, start_index, end_index,
                        last_timestamp - time_step, time_step),
                 end_index, cur_timestamp)

\* The packets after the last music packet, m being what MusicLoop returned
MusicTail(m, end_index, cur_timestamp) ==
    SetTimestamp(IF m.seg_start <= end_index
                 THEN Spread(m.buffer, m.seg_start, end_index, m.current_time,
                             (cur_timestamp - m.current_time)
                                 \div ((end_index - m.seg_start + 1) + 1))
                 ELSE m.buffer,
                 end_index, cur_timestamp)

AutoTimestampOf(buffer, start_index, end_index, last_timestamp, cur_timestamp, music_broadcasters, total_delta, music_packet_count) ==
    IF total_delta <= 0 THEN [ok |-> FALSE, buffer |-> buffer]
    ELSE IF start_index >= end_index THEN [ok |-> TRUE, buffer |-> buffer]
    ELSE IF music_packet_count = 0
    THEN [ok |-> TRUE,
          buffer |-> SpreadEvenly(buffer, start_index, end_index, last_timestamp,
                        cur_timestamp,
                        total_delta \div ((end_index - start_index + 1) - 1))]
    ELSE [ok |-> TRUE,
          buffer |-> MusicTail(
                        MusicLoop(buffer, start_index, end_index, start_index,
                                  last_timestamp, total_delta \div music_packet_count,
                                  music_broadcasters),
                        end_index, cur_timestamp)]

\* handle_auto_timestamp (converter.rs 940-1099).  Returns [ok, buffer].
handle_auto_timestamp(buffer, start_index, end_index, last_timestamp, cur_timestamp, music_broadcasters) ==
    AutoTimestampOf(buffer, start_index, end_index, last_timestamp, cur_timestamp,
                    music_broadcasters, cur_timestamp - last_timestamp,
                    MusicPacketCount(buffer, start_index, end_index,
                                     music_broadcasters))

\* The first pass of handle_packetinfo_buffer (converter.rs 1110-1178).
\* acc: datetime_receiver_id, music_broadcasters, last_confirmed_timestamp
\* (NoTime when None), last_confirmed_packet_index, ranges_to_process, and ok
\* (FALSE once try_parse_date_time has failed).
ScanStart ==
    [datetime_receiver_id |-> 0, music_broadcasters |-> {},
     last_confirmed_timestamp |-> NoTime, last_confirmed_packet_index |-> 0,
     ranges_to_process |-> <<>>, ok |-> TRUE]

RECURSIVE ScanFrames(_, _, _, _)
ScanFrames(acc, frames, j, index) ==
    IF j > Len(frames) \/ ~acc.ok THEN acc
    ELSE LET f == frames[j] IN
    CASE IsInstantiate(f) ->
            ScanFrames(
                [acc EXCEPT
                    !.datetime_receiver_id =
                        IF Contains(f.prefab_name, "TimedAsset/DateTimeReceiver")
                        THEN f.object_id ELSE @,
                    !.music_broadcasters =
                        IF Contains(f.prefab_name, "VoiceObject/MusicBroadcaster")
                        THEN @ \cup {f.object_id} ELSE @],
                frames, j + 1, index)
      [] IsUpdate(f) /\ f.object_id = acc.datetime_receiver_id ->
            IF f.payload < 0 THEN [acc EXCEPT !.ok = FALSE]
            ELSE IF acc.last_confirmed_timestamp = NoTime
            THEN \* break: the rest of this packet's frames is not looked at
                 [acc EXCEPT !.last_confirmed_timestamp = f.payload,
                             !.last_confirmed_packet_index = index]
            ELSE ScanFrames(
                    [acc EXCEPT
                        !.ranges_to_process =
                            Append(@, [start_index |-> acc.last_confirmed_packet_index,
                                       end_index |-> index,
                                       start_time |-> acc.last_confirmed_timestamp,
                                       end_time |-> f.payload]),
                        !.last_confirmed_timestamp = f.payload,
                        !.last_confirmed_packet_index = index],
                    frames, j + 1, index)
      [] OTHER -> ScanFrames(acc, frames, j + 1, index)

RECURSIVE ScanPackets(_, _, _)
ScanPackets(acc, buffer, index) ==
    IF index > Len(buffer) THEN acc
    ELSE ScanPackets(ScanFrames(acc, buffer[index].frames, 1, index), buffer, index + 1)

\* The second pass (converter.rs 1181-1190): `?` stops at the first error.
\* ApplyNext continues with the ranges left after one handle_auto_timestamp.
RECURSIVE ApplyRanges(_, _, _)
ApplyNext(done, ranges, music_broadcasters) ==
    IF done.ok THEN ApplyRanges(done.buffer, ranges, music_broadcasters) ELSE done

ApplyRange(buffer, r, music_broadcasters) ==
    handle_auto_timestamp(buffer, r.start_index, r.end_index,
                          r.start_time, r.end_time, music_broadcasters)

ApplyRanges(buffer, ranges, music_broadcasters) ==
    IF ranges = <<>> THEN [ok |-> TRUE, buffer |-> buffer]
    ELSE ApplyNext(ApplyRange(buffer, Head(ranges), music_broadcasters),
                   Tail(ranges), music_broadcasters)

\* FIXED_INTERVAL_MS (converter.rs 1199), in microseconds
FixedInterval == 20 * 1000

\* The packets after the last range (converter.rs 1194-1216)
FixedTail(buffer, ranges) ==
    IF ranges = <<>> THEN buffer
    ELSE Spread(buffer, Last(ranges).end_index + 1, Len(buffer),
                Last(ranges).end_time, FixedInterval)

\* The timestamps pass of handle_packetinfo_buffer: [ok, buffer]
Retimed(applied, ranges) ==
    IF ~applied.ok THEN applied
    ELSE [ok |-> TRUE, buffer |-> FixedTail(applied.buffer, ranges)]

ReconstructFrom(buffer, scan) ==
    IF ~scan.ok THEN [ok |-> FALSE, buffer |-> buffer]
    ELSE Retimed(ApplyRanges(buffer, scan.ranges_to_process,
                             scan.music_broadcasters),
                 scan.ranges_to_process)

Reconstruct(buffer) == ReconstructFrom(buffer, ScanPackets(ScanStart, buffer, 1))

\* The drain of the buffer through the builder (converter.rs 1218-1286)
DrainFirst(c, timestamp) ==
    IF c.segments = <<>>
    THEN FirstHeader([c EXCEPT !.initial_timestamp = timestamp], timestamp)
    ELSE c

DrainRollover(c, timestamp) ==
    IF timestamp - c.initial_timestamp > DURATION
    THEN RolloverHeader([c EXCEPT !.initial_timestamp = @ + DURATION], timestamp)
    ELSE c

DrainMirror(c, frames) ==
    [c EXCEPT !.initial_dataframes = MirrorAll(@, frames),
              !.live_objects = LiveAfter(@, frames)]

DrainOne(c, packet_info) ==
    BuilderAdd(DrainMirror(DrainRollover(DrainFirst(c, packet_info.timestamp),
                                         packet_info.timestamp),
                           packet_info.frames),
               packet_info)

RECURSIVE Drain(_, _)
Drain(c, packets) ==
    IF packets = <<>> THEN c ELSE Drain(DrainOne(c, Head(packets)), Tail(packets))

\* handle_packetinfo_buffer (converter.rs 1102-1288); r is what the
\* timestamps pass returned.
DrainRetimed(c, r) ==
    IF ~r.ok
    THEN [c EXCEPT !.initial_dataframes = <<>>,
                   !.live_objects = {},
                   !.packetinfo_buffer = r.buffer,
                   !.outcome = "error: auto timestamp"]
    ELSE Drain([c EXCEPT !.initial_dataframes = <<>>,
                         !.live_objects = {},
                         !.packetinfo_buffer = <<>>,
                         !.retimed_buffer = r.buffer],
               r.buffer)

handle_packetinfo_buffer(c) ==
    IF c.packetinfo_buffer = <<>> THEN c
    ELSE DrainRetimed(c, Reconstruct(c.packetinfo_buffer))

\* The end of a part: the buffered packets are retimed and drained in
\* auto-timestamp mode, the segments are written, and `?` stops at the first
\* error (converter.rs 178-200, 552-566).
WriteIfRunning(c) == IF c.outcome = "running" THEN BuilderWrite(c) ELSE c
DrainIfAuto(c) == IF auto_timestamp THEN handle_packetinfo_buffer(c) ELSE c
ThenIfRunning(c, then) == IF c.outcome = "running" THEN then ELSE c
WithState(c, s) == ThenIfRunning(c, [c EXCEPT !.state = s])
WithOutcome(c, o) == ThenIfRunning(c, [c EXCEPT !.outcome = o])

\* A process_packet that also ends on a packet stamped exactly data_end_time
ProcessPacketEndInclusive(c, packet_info) ==
    IF data_end_time # NoTime /\ packet_info.timestamp >= data_end_time
    THEN [c EXCEPT !.state = "End"]
    ELSE CASE c.state = "Initial" -> process_initial_state(c, packet_info)
           [] c.state = "FirstDataframes" -> process_first_dataframes_state(c, packet_info)
           [] c.state \in {"Pong", "UpdateObjects"} ->
                process_update_objects_state(c, packet_info)
           [] c.state = "Split" ->
                WithState(WriteIfRunning(DrainIfAuto(c)), "FirstDataframes")
           [] OTHER -> c

\* process_packet (converter.rs 526-572)
process_packet(c, packet_info) ==
    IF data_end_time # NoTime /\ packet_info.timestamp > data_end_time
    THEN [c EXCEPT !.state = "End"]
    ELSE CASE c.state = "Initial" -> process_initial_state(c, packet_info)
           [] c.state = "FirstDataframes" -> process_first_dataframes_state(c, packet_info)
           [] c.state \in {"Pong", "UpdateObjects"} ->
                process_update_objects_state(c, packet_info)
           [] c.state = "Split" ->
                WithState(WriteIfRunning(DrainIfAuto(c)), "FirstDataframes")
           [] OTHER -> c

\* finalize_conversion (converter.rs 178-200)
finalize_conversion(c) ==
    WithOutcome(WriteIfRunning(DrainIfAuto(c)), "finished")

-----------------------------------------------------------------------------
(* The converter as a state machine: one action per packet read by          *)
(* process_all_packets, one for finalize_conversion (converter.rs 164-200). *)

\* ConversionContext::new / SegmentBuilder::new (converter.rs 236-245,
\* 432-488) for the given options.
ConvInit(split, st, dst, det, auto, shift) ==
    /\ state = "Initial"
    /\ data_room = [id |-> 0, len |-> 3]
    /\ initial_timestamp = 0
    /\ initial_dataframes = <<>>
    /\ split_write_mode = split
    /\ start_time = st
    /\ data_start_time = dst
    /\ data_end_time = det
    /\ auto_timestamp = auto
    /\ packetinfo_buffer = <<>>
    /\ segments = <<>>
    /\ current_sequence = 0
    /\ part_count = 0
    /\ timeshift = shift
    /\ written = <<>>
    /\ last_add = NoAdd
    /\ nprocessed = 0
    /\ retimed_buffer = <<>>
    /\ live_objects = {}
    /\ headers = <<>>
    /\ clock = 0
    /\ last_packet = PacketInfo(0, NoControl, <<>>)
    /\ outcome = "running"

NoPacket == PacketInfo(0, NoControl, <<>>)
NoRecord == [length |-> 0, marker |-> 0, timestamp_micros |-> 0, fields |-> <<>>]
NoResult == ReadError("not read")

CodecIdle == rt_packet = NoPacket /\ rt_record = NoRecord /\ rt_result = NoResult

\* Client::with_config and ClientRuntimeState::new (client.rs 71-87, 128-143)
\* at wall-clock second t.
ClientInit(t) ==
    /\ stream = "none"
    /\ running_signal = TRUE
    /\ reconnect_attempts = 0
    /\ receive_buffer = <<>>
    /\ saved_buffer = <<>>
    /\ client_state = "Auth"
    /\ data_prefix = t
    /\ data_index = 0
    /\ keepalive_enabled = FALSE
    /\ keepalive_handle = "none"
    /\ keepalive_rx = 0
    /\ main_pc = "loop"
    /\ returned = "no"
    /\ inbound = <<>>
    /\ now = t
    /\ files = <<>>
    /\ sent = <<>>
    /\ nsent = 0
    /\ spliced = <<>>
    /\ flushed = <<>>

ClientIdle == ClientInit(0)

\* MixedPacketReader::new (reader.rs 176-182) on an empty file
MixedIdle ==
    /\ mixed_file = <<>>
    /\ mixed_state = "ExpectProtobuf"
    /\ pending_protobuf = <<>>
    /\ mixed_yielded = <<>>
    /\ mixed_last = "start"
    /\ mixed_source = [pairs |-> <<>>, cut |-> 0]

\* no call of AlsPacket made
PacketIdle ==
    /\ pk_call = [op |-> "none", n |-> 0]
    /\ pk_result = [status |-> "pending", bytes |-> <<>>]

\* Editor::new (editor.rs 54-62) on an empty input directory
EditorNew(ids, shift, input) ==
    /\ target_timeline_ids = ids
    /\ timeshift_ms = shift
    /\ timeline_receiver_objects = {}
    /\ modified_states = <<>>
    /\ current_timeline_index = 0
    /\ ed_input = input
    /\ ed_cursor = [file |-> 1, record |-> 1, has_seen_cache_ended |-> FALSE]
    /\ ed_output = [f \in 1..Len(input) |-> <<>>]

EditorIdle == EditorNew(<<>>, <<>>, <<>>)

\* no call of handle_auto_timestamp made on its own
SpreadIdle ==
    /\ range_call = [buffer |-> <<>>, start_index |-> 0, end_index |-> 0,
                     start_time |-> 0, end_time |-> 0, music_broadcasters |-> {}]
    /\ range_result = [status |-> "pending", buffer |-> <<>>]

\* PacketStats::default (analyzer.rs 109-118, 135-142, 154-163)
DefaultStats ==
    [total_packets |-> 0, packets_with_control |-> 0, packets_with_frames |-> 0,
     total_frames |-> 0,
     control |-> [data_count |-> 0, pong_count |-> 0,
                  segment_started_at_count |-> 0, cache_ended_count |-> 0,
                  total |-> 0],
     frames |-> [instantiate_object_count |-> 0, update_object_count |-> 0,
                 destroy_object_count |-> 0, room_count |-> 0,
                 authorize_response_count |-> 0, join_room_response_count |-> 0,
                 total |-> 0],
     unknown_fields |-> <<>>]

\* analyze_file not called
AnalyzeIdle ==
    /\ af_input = [packets |-> <<>>, start_time |-> NoTime, end_time |-> NoTime,
                   max_packets |-> 0]
    /\ af_loop = [packet_count |-> 0, processed_count |-> 0, pc |-> "loop"]
    /\ analyzer = DefaultStats
    /\ af_analyzed = <<>>

\* PacketAnalyzer::new (analyzer.rs 16-18), for each analyzer
MergeIdle ==
    /\ merge_phase = "feeding"
    /\ analyzer_a = DefaultStats
    /\ analyzer_b = DefaultStats
    /\ analyzer_single = DefaultStats
    /\ merged = [ab |-> DefaultStats, ba |-> DefaultStats]

\* ReaderLimits (proto/reader.rs 372-379)
ReaderLimits(max_packets, max_files, max_packets_per_file) ==
    [max_packets |-> max_packets, max_files |-> max_files,
     max_packets_per_file |-> max_packets_per_file]

\* truncate(n) of a queue (proto/reader.rs 459)
Truncate(queue, n) == SubSeq(queue, 1, IF n < Len(queue) THEN n ELSE Len(queue))

\* PacketsBufferReader::new (proto/reader.rs 429-442) on the files of queue,
\* then with_limits (proto/reader.rs 455-462); a file is named by its place
\* in the queue.
BufferNew(queue, lim) ==
    /\ current_reader = <<>>
    /\ file_entries = Truncate([f \in 1..Len(queue) |-> f], lim.max_files)
    /\ limits = lim
    /\ total_packets_read = 0
    /\ files_processed = 0
    /\ current_file_packets = 0
    /\ pb_queue = queue
    /\ pb_opened = <<>>
    /\ pb_results = <<>>

\* no PacketsBufferReader of its own
BufferIdle == BufferNew(<<>>, ReaderLimits(0, 0, 0))

MoreIdle == SpreadIdle /\ AnalyzeIdle /\ MergeIdle /\ BufferIdle

ToolIdle == MixedIdle /\ PacketIdle /\ EditorIdle /\ MoreIdle

\* The context after a call becomes the next state.
Becomes(c) ==
    /\ state' = c.state
    /\ data_room' = c.data_room
    /\ initial_timestamp' = c.initial_timestamp
    /\ initial_dataframes' = c.initial_dataframes
    /\ start_time' = c.start_time
    /\ data_start_time' = c.data_start_time
    /\ packetinfo_buffer' = c.packetinfo_buffer
    /\ segments' = c.segments
    /\ current_sequence' = c.current_sequence
    /\ part_count' = c.part_count
    /\ written' = c.written
    /\ last_add' = c.last_add
    /\ retimed_buffer' = c.retimed_buffer
    /\ live_objects' = c.live_objects
    /\ headers' = c.headers
    /\ outcome' = c.outcome
    /\ UNCHANGED <<split_write_mode, data_end_time, auto_timestamp, timeshift>>

\* How many packets the input holds at most.
MaxPackets == 4

\* One turn of the loop of process_all_packets: the loop ends on an error and
\* once process_packet has returned true (state End).
ProcessUpTo(limit, packet_info) ==
    /\ outcome = "running"
    /\ state # "End"
    /\ nprocessed < limit
    /\ Becomes(process_packet(Ctx, packet_info))
    /\ nprocessed' = nprocessed + 1
    /\ clock' = packet_info.timestamp
    /\ last_packet' = packet_info
    /\ UNCHANGED <<codecVars, clientVars, toolVars>>

ProcessPacket(packet_info) == ProcessUpTo(MaxPackets, packet_info)

\* finalize_conversion, when the input is exhausted or the loop has ended.
Finalize ==
    /\ outcome = "running"
    /\ Becomes(finalize_conversion(Ctx))
    /\ UNCHANGED <<nprocessed, clock, last_packet>>
    /\ UNCHANGED <<codecVars, clientVars, toolVars>>

-----------------------------------------------------------------------------
(* Input packets, as the packet readers hand them over.                     *)

Second == 1000 * 1000

Inst(object_id, prefab_name, len) ==
    Frame("InstantiateObject", object_id, prefab_name, "player", "Original", 0, len)
Upd(object_id, payload, len) ==
    Frame("UpdateObject", object_id, "", "", "Original", payload, len)
Destroy(object_id) ==
    Frame("DestroyObject", object_id, "", "", "Original", 0, 6)
JoinRoomResponse == Frame("JoinRoomResponse", 0, "", "", "None", 0, 4)

\* The packets of a template set, stamped at or after the last packet read.
Stamped(templates, steps) ==
    {PacketInfo(clock + d, t.control, t.frames) : d \in steps, t \in templates}

Template(control, frames) == [control |-> control, frames |-> frames]

JoinPacket == Template(NoControl, <<JoinRoomResponse>>)

-----------------------------------------------------------------------------
(* SpecList: the converter on captured timestamps, given objects that are   *)
(* instantiated, updated and destroyed in any order, with and without       *)
(* split mode.                                                              *)

SmallLen == 20

ListTemplates ==
    {JoinPacket,
     Template(Data(1), <<Inst(1, "Camera/Cameraman", SmallLen)>>),
     Template(Data(1), <<Inst(2, "Camera/FixedCamera", SmallLen)>>),
     Template(Data(1), <<Upd(1, 7, SmallLen)>>),
     Template(Data(1), <<Upd(2, 8, SmallLen)>>),
     Template(Data(1), <<Destroy(1)>>)}

\* The time between two packets: within a segment, or past its end.
ListSteps == {1 * Second, 11 * Second}

InitList ==
    /\ \E split \in BOOLEAN : ConvInit(split, NoTime, NoTime, NoTime, FALSE, 0)
    /\ CodecIdle
    /\ ClientIdle
    /\ ToolIdle

NextList ==
    \/ \E packet_info \in Stamped(ListTemplates, ListSteps) : ProcessPacket(packet_info)
    \/ Finalize

SpecList == InitList /\ [][NextList]_vars

ObjectIds == {1, 2}

InstantiateCount(dataframes, object_id) ==
    Cardinality({i \in 1..Len(dataframes) :
                    IsInstantiate(dataframes[i])
                    /\ dataframes[i].object_id = object_id})

\* C3: after packets processed in FirstDataframes, UpdateObjects and Pong the
\* initial-dataframes list holds exactly one InstantiateObject for every
\* object_id instantiated and not destroyed since, and none for any other.
C3_OneInstantiatePerLiveObject ==
    state \in {"UpdateObjects", "Pong"} =>
        \A object_id \in ObjectIds :
            InstantiateCount(initial_dataframes, object_id)
                = IF object_id \in live_objects THEN 1 ELSE 0

\* The index of the CacheEnded packet that closes the header of a segment,
\* 0 when the segment has none.
CacheEndIndex(segment) ==
    LET ends == {i \in 1..Len(segment.packets) :
                    segment.packets[i].control.tag = "CacheEnded"}
    IN  IF ends = {} THEN 0 ELSE CHOOSE i \in ends : \A j \in ends : i <= j

\* The frames of the header of a segment: everything up to its CacheEnded.
HeaderFrames(segment) ==
    Flatten([i \in 1..CacheEndIndex(segment) |-> segment.packets[i].frames])

\* The UpdateObject frames with a RoomAll target emitted in a segment after
\* its header.
EmittedUpdates(segment) ==
    LET data == Flatten([i \in 1..Len(segment.packets) |->
                    IF i > CacheEndIndex(segment)
                    THEN segment.packets[i].frames ELSE <<>>])
    IN  {data[i] : i \in {j \in 1..Len(data) :
                            IsUpdate(data[j]) /\ data[j].target = "RoomAll"}}

HasInstantiateFor(frames, object_id) ==
    \E i \in 1..Len(frames) :
        /\ IsInstantiate(frames[i])
        /\ frames[i].object_id = object_id
        /\ frames[i].target = "CurrentPlayer"

C5_CameramanBeforeFixedCamera ==
    \A i, j \in 1..Len(initial_dataframes) :
        /\ IsInstantiate(initial_dataframes[i])
        /\ Contains(initial_dataframes[i].prefab_name, "Camera/Cameraman")
        /\ IsInstantiate(initial_dataframes[j])
        /\ Contains(initial_dataframes[j].prefab_name, "Camera/FixedCamera")
        => i < j

\* C6: in the initial-dataframes list every InstantiateObject entry is at a
\* smaller index than every UpdateObject entry.
C6_InstantiateBeforeUpdate ==
    \A i, j \in 1..Len(initial_dataframes) :
        IsInstantiate(initial_dataframes[i]) /\ IsUpdate(initial_dataframes[j])
            => i < j

\* An InstantiateObject has just been inserted into a list that already held
\* an UpdateObject.
C6_Witness ==
    /\ last_add.called
    /\ last_add.input.frames # <<>>
    /\ IsInstantiate(last_add.input.frames[1])
    /\ state = "UpdateObjects"
    /\ \E j \in 1..Len(initial_dataframes) : IsUpdate(initial_dataframes[j])
    /\ Cardinality({i \in 1..Len(initial_dataframes) :
                        IsInstantiate(initial_dataframes[i])}) >= 2

-----------------------------------------------------------------------------
(* SpecBudget: the converter on captured timestamps, given packets and      *)
(* frames around and above the byte budget, with and without                *)
(* data_start_time.                                                         *)

\* A frame that alone is above the budget; the mixed reader admits a record
\* of up to 65535 bytes.
BigLen == 40000

\* A packet of ManyFrames frames of FrameLen bytes each: its record is above
\* the budget, three of its frames together are just below it.
ManyFrames == 4
FrameLen == 5115

BudgetTemplates ==
    {JoinPacket,
     Template(Data(1), <<Inst(1, "Stage/Prop", SmallLen)>>),
     Template(Data(1), <<Inst(1, "Stage/Prop", BigLen)>>),
     Template(Data(1), <<Upd(1, 7, SmallLen)>>),
     Template(Data(1), <<Upd(1, 7, BigLen)>>),
     Template(Data(1), [i \in 1..ManyFrames |-> Upd(1, i, FrameLen)])}

BudgetSteps == {1 * Second, 3 * Second}

\* data_start_time when it is given
SkipUntil == 5 * Second

InitBudget ==
    /\ \E dst \in {NoTime, SkipUntil} :
            ConvInit(FALSE, NoTime, dst, NoTime, FALSE, 0)
    /\ CodecIdle
    /\ ClientIdle
    /\ ToolIdle

NextBudget ==
    \/ \E packet_info \in Stamped(BudgetTemplates, BudgetSteps) :
            ProcessPacket(packet_info)
    \/ Finalize

SpecBudget == InitBudget /\ [][NextBudget]_vars

\* C1: when SegmentBuilder::add receives a packet whose record is at least
\* 15 * 1024 bytes, the packets it appends carry, concatenated in order,
\* exactly the frames of that packet, each with its timestamp and control.
C1_SplitKeepsEveryFrame ==
    (last_add.called /\ to_vec_len(last_add.input) >= PacketByteBudget) =>
        /\ Flatten([i \in 1..Len(last_add.output) |-> last_add.output[i].frames])
                = last_add.input.frames
        /\ \A i \in 1..Len(last_add.output) :
                /\ last_add.output[i].timestamp = last_add.input.timestamp
                /\ last_add.output[i].control = last_add.input.control

\* C2: every packet of every segment of the builder has a record strictly
\* shorter than 15 * 1024 bytes.
C2_EveryPacketUnderBudget ==
    \A k \in 1..Len(segments) :
        \A i \in 1..Len(segments[k].packets) :
            to_vec_len(segments[k].packets[i]) < PacketByteBudget

\* C8: every record written to a segment file reads back, with
\* StandardPacketReader::read_packet, as the packet it was written for: same
\* timestamp, control and frames, all its bytes consumed, a length field of
\* 9 plus the protobuf length and a marker of 1.
C8_WrittenRecordReadsBack ==
    \A w \in 1..Len(written) :
        \A k \in 1..Len(written[w].segments) :
            \A i \in 1..Len(written[w].segments[k].packets) :
                LET P == written[w].segments[k].packets[i]
                    record == written[w].files[k][i]
                    r == read_packet(record)
                IN  /\ record.length = 9 + FieldsLen(protobuf_to_vec(P))
                    /\ record.marker = 1
                    /\ r.ok
                    /\ r.timestamp = P.timestamp
                    /\ r.control = P.control
                    /\ r.frames = P.frames
                    /\ r.consumed = to_vec_len(P)

-----------------------------------------------------------------------------
(* SpecAuto: the converter in auto-timestamp mode.  The capture stamps its  *)
(* packets later than the instants the DateTimeReceiver carries.            *)

\* The instants the DateTimeReceiver updates carry
AnchorTimes == {1 * Second, 3 * Second}

AutoTemplates ==
    {JoinPacket,
     Template(Data(1), <<Inst(1, "TimedAsset/DateTimeReceiver", SmallLen)>>),
     Template(Data(1), <<Inst(3, "VoiceObject/MusicBroadcaster", SmallLen)>>),
     Template(Data(1), <<Upd(3, 0, SmallLen)>>),
     Template(Data(1), <<Upd(2, 9, SmallLen)>>)}
    \cup {Template(Data(1), <<Upd(1, t, SmallLen)>>) : t \in AnchorTimes}

AutoSteps == {20 * Second}

InitAuto ==
    /\ ConvInit(FALSE, NoTime, NoTime, NoTime, TRUE, 0)
    /\ CodecIdle
    /\ ClientIdle
    /\ ToolIdle

NextAuto ==
    \/ \E packet_info \in Stamped(AutoTemplates, AutoSteps) : ProcessPacket(packet_info)
    \/ Finalize

SpecAuto == InitAuto /\ [][NextAuto]_vars

\* C7: after a reconstruction that completed without error, the timestamps
\* of the buffer are non-decreasing in buffer order.
C7_ReconstructedTimestampsMonotone ==
    \A i, j \in 1..Len(retimed_buffer) :
        i < j => retimed_buffer[i].timestamp <= retimed_buffer[j].timestamp

-----------------------------------------------------------------------------
(* SpecCodec: one packet, written with PacketInfo::to_vec and read back     *)
(* with StandardPacketReader::read_packet.                                  *)

\* The longest frame list of a packet drawn here.
MaxFrames == 2

\* A frame whose length takes a two-byte varint.
LongLen == 200

CodecFrames ==
    {Inst(1, "Camera/Cameraman", SmallLen), Upd(1, 7, SmallLen), Upd(2, 8, LongLen)}

CodecControls ==
    {NoControl, Data(1), Data(0), Pong(1), SegmentStartedAt(5), CacheEnded(1)}

FrameLists ==
    UNION {[1..n -> CodecFrames] : n \in 0..MaxFrames}

CodecPackets ==
    {PacketInfo(t, control, frames) :
        t \in {0, 5}, control \in CodecControls, frames \in FrameLists}

InitCodec ==
    /\ ConvInit(FALSE, NoTime, NoTime, NoTime, FALSE, 0)
    /\ rt_packet \in CodecPackets
    /\ rt_record = NoRecord
    /\ rt_result = NoResult
    /\ ClientIdle
    /\ ToolIdle

convAll == <<convVars, builderVars, bookVars>>

\* PacketInfo::to_vec on the packet
ToVec ==
    /\ rt_record = NoRecord
    /\ rt_record' = to_vec(rt_packet)
    /\ UNCHANGED <<rt_packet, rt_result, convAll, clientVars, toolVars>>

\* StandardPacketReader::read_packet on a file that holds the record
ReadPacket ==
    /\ rt_record # NoRecord
    /\ rt_result = NoResult
    /\ rt_result' = read_packet(rt_record)
    /\ UNCHANGED <<rt_packet, rt_record, convAll, clientVars, toolVars>>

NextCodec == ToVec \/ ReadPacket

SpecCodec == InitCodec /\ [][NextCodec]_vars

\* C9: the protobuf bytes of a DataPack are its frames, each as a field 16,
\* in list order, followed by at most one control field (2, 10, 14 or 15
\* according to the variant); no control field comes before a frame.
C9_FramesThenControl ==
    rt_record # NoRecord =>
        LET fields == rt_record.fields
            n == Len(rt_packet.frames)
        IN  /\ Len(fields) = IF rt_packet.control.tag = "None" THEN n ELSE n + 1
            /\ \A i \in 1..n :
                    fields[i].field = 16 /\ fields[i].frame = rt_packet.frames[i]
            /\ rt_packet.control.tag # "None" =>
                    /\ fields[n + 1].field = ControlFieldNumber(rt_packet.control)
                    /\ fields[n + 1].field \in {2, 10, 14, 15}
                    /\ fields[n + 1].value = rt_packet.control.value

\* A packet with several frames and a control has been written.
C9_Witness ==
    /\ rt_record # NoRecord
    /\ Len(rt_packet.frames) >= 2
    /\ rt_packet.control.tag # "None"

-----------------------------------------------------------------------------
(* The capture client (client.rs).  Bytes are integers 0..255.              *)

\* i64::to_be_bytes of a value below 2^31: eight bytes, the high four zero.
to_be_bytes(v) ==
    [i \in 1..8 |-> IF i <= 4 THEN 0 ELSE (v \div (256 ^ (8 - i))) % 256]

\* The trailer appended to a spliced message (client.rs 263-266): the byte 8,
\* then Utc::now().timestamp_micros() big-endian.
Trailer(t) == <<8>> \o to_be_bytes(t * Second)

\* The flush threshold of save_raw_data, `1024 * 1024` in client.rs 282,
\* scaled down to two messages with their trailers.
FlushThreshold == 24

\* The scratch buffer of state_handler, `[0u8; 4096]` in client.rs 196,
\* scaled down: one read returns at most this many bytes.
ReadSize == 4

\* config.max_reconnect_attempts
max_reconnect_attempts == 2

\* The runtime state the helpers below work on.
Runtime ==
    [receive_buffer |-> receive_buffer, saved_buffer |-> saved_buffer,
     client_state |-> client_state, data_index |-> data_index,
     keepalive_enabled |-> keepalive_enabled,
     keepalive_handle |-> keepalive_handle, keepalive_rx |-> keepalive_rx,
     files |-> files, sent |-> sent, spliced |-> spliced, flushed |-> flushed,
     err |-> FALSE]

\* save_raw_data (client.rs 280-300); File::create and write_all succeed.
save_raw_data(rs, data, force) ==
    LET buffer == rs.saved_buffer \o data IN
    IF Len(buffer) >= FlushThreshold \/ force
    THEN [rs EXCEPT !.files = (<<data_prefix, rs.data_index>> :> buffer) @@ @,
                    !.flushed = @ \o buffer,
                    !.data_index = @ + 1,
                    !.saved_buffer = <<>>]
    ELSE [rs EXCEPT !.saved_buffer = buffer]

\* A start of the worker that leaves the phase at Join
StartKeepaliveInJoin(rs) ==
    [rs EXCEPT !.keepalive_enabled = TRUE, !.keepalive_handle = "waiting",
               !.keepalive_rx = 1, !.client_state = "Join"]

\* start_keepalive_thread and send_stream_to_keepalive (client.rs 368-475)
\* when no worker exists: the worker is spawned and handed a clone of the
\* socket.
start_keepalive_thread(rs) ==
    [rs EXCEPT !.keepalive_enabled = TRUE, !.keepalive_handle = "waiting",
               !.keepalive_rx = 1]

\* process_receive_buffer (client.rs 233-274).  join_ok: whether the send of
\* the JoinRequest succeeds.  err is set when the function returns Err.
RECURSIVE process_receive_buffer(_, _)
process_receive_buffer(rs, join_ok) ==
    IF Len(rs.receive_buffer) < 2 THEN rs
    ELSE
    LET packet_length == rs.receive_buffer[1] * 256 + rs.receive_buffer[2] + 2 IN
    IF Len(rs.receive_buffer) < packet_length THEN rs
    ELSE
    LET packet_data == SubSeq(rs.receive_buffer, 1, packet_length)
        drained == [rs EXCEPT
            !.receive_buffer = SubSeq(@, packet_length + 1, Len(@)),
            !.spliced = Append(@, [message |-> packet_data, at |-> now])]
    IN  IF drained.client_state = "Join" /\ ~join_ok
        THEN [drained EXCEPT !.err = TRUE]
        ELSE LET joined ==
                    IF drained.client_state = "Join"
                    THEN start_keepalive_thread(
                            [drained EXCEPT !.sent = Append(@, "JoinRequest"),
                                            !.client_state = "ReceivingData"])
                    ELSE drained
             IN  process_receive_buffer(
                    save_raw_data(joined, packet_data \o Trailer(now), FALSE),
                    join_ok)

RuntimeBecomes(rs) ==
    /\ receive_buffer' = rs.receive_buffer
    /\ saved_buffer' = rs.saved_buffer
    /\ client_state' = rs.client_state
    /\ data_index' = rs.data_index
    /\ keepalive_enabled' = rs.keepalive_enabled
    /\ keepalive_handle' = rs.keepalive_handle
    /\ keepalive_rx' = rs.keepalive_rx
    /\ files' = rs.files
    /\ sent' = rs.sent
    /\ spliced' = rs.spliced
    /\ flushed' = rs.flushed

others == <<convAll, codecVars, toolVars>>

\* Client::run, one turn of the loop without a connection (client.rs
\* 319-344), followed by state_handler in phase Auth (client.rs 187-194):
\* connect, reset, send the AuthenticateRequest.
RunConnect(connect_ok, send_ok) ==
    /\ main_pc = "loop" /\ running_signal /\ stream = "none"
    /\ reconnect_attempts < max_reconnect_attempts
    /\ IF ~connect_ok
       THEN /\ reconnect_attempts' = reconnect_attempts + 1
            /\ UNCHANGED <<stream, receive_buffer, saved_buffer, client_state,
                           data_prefix, data_index, main_pc, inbound, sent,
                           spliced, flushed>>
       ELSE /\ stream' = "open"
            /\ receive_buffer' = <<>>
            /\ saved_buffer' = <<>>
            /\ data_index' = 0
            /\ data_prefix' = now
            /\ inbound' = <<>>
            /\ spliced' = <<>>
            /\ flushed' = <<>>
            /\ IF send_ok
               THEN /\ sent' = <<"AuthenticateRequest">>
                    /\ client_state' = "Join"
                    /\ main_pc' = "loop"
                    /\ reconnect_attempts' = reconnect_attempts + 1
               ELSE /\ sent' = <<>>
                    /\ client_state' = "Auth"
                    /\ main_pc' = "disconnect"
                    /\ reconnect_attempts' = reconnect_attempts + 2
    /\ UNCHANGED <<running_signal, keepalive_enabled, keepalive_handle,
                   keepalive_rx, returned, now, files, nsent, others>>

\* One turn of the loop with a connection, where the read returns n bytes
\* (client.rs 202-217) and process_receive_buffer runs on them.
RunRead(n, join_ok) ==
    /\ main_pc = "loop" /\ running_signal /\ stream = "open"
    /\ n \in 1..Min(Len(inbound), ReadSize)
    /\ inbound' = SubSeq(inbound, n + 1, Len(inbound))
    /\ LET rs == process_receive_buffer(
                    [Runtime EXCEPT !.receive_buffer = @ \o SubSeq(inbound, 1, n)],
                    join_ok)
       IN  /\ RuntimeBecomes(rs)
           /\ main_pc' = IF rs.err THEN "disconnect" ELSE "loop"
           /\ reconnect_attempts' = IF rs.err THEN reconnect_attempts + 1
                                    ELSE reconnect_attempts
    /\ UNCHANGED <<stream, running_signal, data_prefix, returned, now, nsent, others>>

\* One turn of the loop where the read returns Ok(0), or WouldBlock after
\* the timeout (client.rs 198-201, 218-226): state_handler returns Ok(false).
RunReadNothing ==
    /\ main_pc = "loop" /\ running_signal /\ stream = "open"
    /\ inbound = <<>>
    /\ main_pc' = "disconnect"
    /\ UNCHANGED <<stream, running_signal, reconnect_attempts, receive_buffer,
                   saved_buffer, client_state, data_prefix, data_index,
                   keepalive_enabled, keepalive_handle, keepalive_rx, returned,
                   inbound, now, files, sent, nsent, spliced, flushed, others>>

\* One turn of the loop where the read fails (client.rs 229, 355-359).
RunReadError ==
    /\ main_pc = "loop" /\ running_signal /\ stream = "open"
    /\ main_pc' = "disconnect"
    /\ reconnect_attempts' = reconnect_attempts + 1
    /\ UNCHANGED <<stream, running_signal, receive_buffer,
                   saved_buffer, client_state, data_prefix, data_index,
                   keepalive_enabled, keepalive_handle, keepalive_rx, returned,
                   inbound, now, files, sent, nsent, spliced, flushed, others>>

\* The loop sees the running flag cleared and run returns Ok (client.rs
\* 313-316, 365); the client is dropped, which disconnects (client.rs 477-481).
RunExit ==
    /\ main_pc = "loop" /\ ~running_signal
    /\ returned' = "ok"
    /\ main_pc' = "disconnect"
    /\ UNCHANGED <<stream, running_signal, reconnect_attempts, receive_buffer,
                   saved_buffer, client_state, data_prefix, data_index,
                   keepalive_enabled, keepalive_handle, keepalive_rx,
                   inbound, now, files, sent, nsent, spliced, flushed, others>>

\* Max connection attempts reached (client.rs 320-325); then the drop.
RunFatal ==
    /\ main_pc = "loop" /\ running_signal /\ stream = "none"
    /\ reconnect_attempts >= max_reconnect_attempts
    /\ returned' = "fatal"
    /\ main_pc' = "disconnect"
    /\ UNCHANGED <<stream, running_signal, reconnect_attempts, receive_buffer,
                   saved_buffer, client_state, data_prefix, data_index,
                   keepalive_enabled, keepalive_handle, keepalive_rx,
                   inbound, now, files, sent, nsent, spliced, flushed, others>>

\* disconnect, first half: stop_keepalive_thread clears the enabled flag and
\* joins the worker (client.rs 166, 436-443).
StopKeepalive ==
    /\ main_pc = "disconnect"
    /\ keepalive_enabled' = FALSE
    /\ main_pc' = "joining"
    /\ UNCHANGED <<stream, running_signal, reconnect_attempts, receive_buffer,
                   saved_buffer, client_state, data_prefix, data_index,
                   keepalive_handle, keepalive_rx, returned,
                   inbound, now, files, sent, nsent, spliced, flushed, others>>

\* A disconnect that does not wait for the worker
FinishWithoutJoin ==
    /\ main_pc = "joining"
    /\ IF receive_buffer # <<>> \/ saved_buffer # <<>>
       THEN RuntimeBecomes(
                save_raw_data([Runtime EXCEPT !.receive_buffer = <<>>],
                              receive_buffer, TRUE))
       ELSE RuntimeBecomes(Runtime)
    /\ stream' = "none"
    /\ main_pc' = IF returned = "no" THEN "loop" ELSE "done"
    /\ UNCHANGED <<running_signal, reconnect_attempts, data_prefix, returned,
                   inbound, now, nsent, others>>

\* disconnect, second half, once the join has returned: the forced save of
\* what the buffers hold, then the shutdown of the socket (client.rs 167-181,
\* 445).
FinishDisconnect ==
    /\ main_pc = "joining"
    /\ keepalive_handle \in {"none", "exited"}
    /\ LET rs == [Runtime EXCEPT !.keepalive_handle = "none", !.keepalive_rx = 0]
       IN  IF rs.receive_buffer # <<>> \/ rs.saved_buffer # <<>>
           THEN RuntimeBecomes(
                    save_raw_data([rs EXCEPT !.receive_buffer = <<>>],
                                  rs.receive_buffer, TRUE))
           ELSE RuntimeBecomes(rs)
    /\ stream' = "none"
    /\ main_pc' = IF returned = "no" THEN "loop" ELSE "done"
    /\ UNCHANGED <<running_signal, reconnect_attempts, data_prefix, returned,
                   inbound, now, nsent, others>>

\* How many requests the model lets the client write on a connection.
MaxSent == 3

\* The worker takes the socket from the channel (client.rs 385-393).
KeepaliveTakeStream ==
    /\ keepalive_handle = "waiting"
    /\ running_signal /\ keepalive_enabled
    /\ keepalive_rx > 0
    /\ keepalive_rx' = keepalive_rx - 1
    /\ keepalive_handle' = "sending"
    /\ UNCHANGED <<stream, running_signal, reconnect_attempts, receive_buffer,
                   saved_buffer, client_state, data_prefix, data_index,
                   keepalive_enabled, main_pc, returned,
                   inbound, now, files, sent, nsent, spliced, flushed, others>>

\* The worker sends a KeepAliveRequest (client.rs 396-417); when the send
\* fails it leaves the inner loop and is back in the outer one.
KeepaliveSend(send_ok) ==
    /\ keepalive_handle = "sending"
    /\ running_signal /\ keepalive_enabled
    /\ Len(sent) < MaxSent
    /\ send_ok => stream = "open"
    /\ IF send_ok
       THEN sent' = Append(sent, "KeepAliveRequest") /\ UNCHANGED keepalive_handle
       ELSE keepalive_handle' = "waiting" /\ UNCHANGED sent
    /\ UNCHANGED <<stream, running_signal, reconnect_attempts, receive_buffer,
                   saved_buffer, client_state, data_prefix, data_index,
                   keepalive_enabled, keepalive_rx, main_pc, returned,
                   inbound, now, files, nsent, spliced, flushed, others>>

\* A worker that looks at the running flag only
KeepaliveExitOnShutdown ==
    /\ keepalive_handle \in {"waiting", "sending"}
    /\ ~running_signal
    /\ keepalive_handle' = "exited"
    /\ UNCHANGED <<stream, running_signal, reconnect_attempts, receive_buffer,
                   saved_buffer, client_state, data_prefix, data_index,
                   keepalive_enabled, keepalive_rx, main_pc, returned,
                   inbound, now, files, sent, nsent, spliced, flushed, others>>

\* The worker sees a flag cleared and exits (client.rs 385-390, 396-403).
KeepaliveExit ==
    /\ keepalive_handle \in {"waiting", "sending"}
    /\ ~running_signal \/ ~keepalive_enabled
    /\ keepalive_handle' = "exited"
    /\ UNCHANGED <<stream, running_signal, reconnect_attempts, receive_buffer,
                   saved_buffer, client_state, data_prefix, data_index,
                   keepalive_enabled, keepalive_rx, main_pc, returned,
                   inbound, now, files, sent, nsent, spliced, flushed, others>>

\* ---- the world

\* The messages the server sends: a u16 big-endian length, then that many
\* bytes.
ServerMessages == {<<0, 1, 7>>, <<0, 2, 8, 9>>}

MaxMessages == 2
MaxTime == 1

ServerSend(message) ==
    /\ stream = "open"
    /\ nsent < MaxMessages
    /\ inbound' = inbound \o message
    /\ nsent' = nsent + 1
    /\ UNCHANGED <<stream, running_signal, reconnect_attempts, receive_buffer,
                   saved_buffer, client_state, data_prefix, data_index,
                   keepalive_enabled, keepalive_handle, keepalive_rx, main_pc,
                   returned, now, files, sent, spliced, flushed, others>>

Tick ==
    /\ now < MaxTime
    /\ now' = now + 1
    /\ UNCHANGED <<stream, running_signal, reconnect_attempts, receive_buffer,
                   saved_buffer, client_state, data_prefix, data_index,
                   keepalive_enabled, keepalive_handle, keepalive_rx, main_pc,
                   returned, inbound, files, sent, nsent, spliced, flushed, others>>

\* Ctrl+C
ShutdownSignal ==
    /\ running_signal
    /\ running_signal' = FALSE
    /\ UNCHANGED <<stream, reconnect_attempts, receive_buffer,
                   saved_buffer, client_state, data_prefix, data_index,
                   keepalive_enabled, keepalive_handle, keepalive_rx, main_pc,
                   returned, inbound, now, files, sent, nsent, spliced, flushed,
                   others>>

InitClient ==
    /\ ConvInit(FALSE, NoTime, NoTime, NoTime, FALSE, 0)
    /\ CodecIdle
    /\ ClientInit(0)
    /\ ToolIdle

NextClient ==
    \/ \E connect_ok, send_ok \in BOOLEAN : RunConnect(connect_ok, send_ok)
    \/ \E n \in 1..ReadSize, join_ok \in BOOLEAN : RunRead(n, join_ok)
    \/ RunReadNothing
    \/ RunReadError
    \/ RunExit
    \/ RunFatal
    \/ StopKeepalive
    \/ FinishDisconnect
    \/ KeepaliveTakeStream
    \/ \E send_ok \in BOOLEAN : KeepaliveSend(send_ok)
    \/ KeepaliveExit
    \/ \E message \in ServerMessages : ServerSend(message)
    \/ Tick
    \/ ShutdownSignal

SpecClient == InitClient /\ [][NextClient]_vars

\* C10: while a connection is open, the bytes flushed to files for it
\* followed by the persisted buffer are the messages spliced from the
\* receive buffer, in reception order, each followed at once by its own
\* trailer: the byte 8 and the 8-byte big-endian reception time.
C10_PersistedIsSplicedWithTrailers ==
    stream = "open" =>
        flushed \o saved_buffer
            = Flatten([i \in 1..Len(spliced) |->
                          spliced[i].message \o Trailer(spliced[i].at)])

-----------------------------------------------------------------------------
(* MixedPacketReader (reader.rs 161-267).  A capture file is a sequence of  *)
(* bytes.  A reader is the record [file, state, pending, result]: the bytes *)
(* not read yet, MixedReaderState, pending_protobuf (<<>> for None) and     *)
(* what read_packet returns.                                                *)

\* u16::from_be_bytes
u16_from_be_bytes(buf) == buf[1] * 256 + buf[2]

\* u64::from_be_bytes, kept as four 16-bit words, most significant first
u64_from_be_bytes(buf) ==
    [k \in 1..4 |-> buf[2 * k - 1] * 256 + buf[2 * k]]

\* DateTime::from_timestamp_micros(v as i64) is None outside the years chrono
\* represents: from about 8.21e18 up to i64::MAX and from i64::MIN up to
\* about -8.33e18, told here by the top word.
ValidMicros(words) == words[1] < 29168 \/ words[1] > 35951

\* The fields of a DataPack the model decodes: key byte -> control variant
\* (field 2 data, 10 pong, 15 cache_ended, all varint).
ControlOfKey(key, v) ==
    CASE key = 16 -> Data(IF v = 0 THEN 0 ELSE 1)
      [] key = 80 -> Pong(IF v = 0 THEN 0 ELSE 1)
      [] key = 120 -> CacheEnded(IF v = 0 THEN 0 ELSE 1)

\* DataPack::decode on payload bytes made of one-byte keys and one-byte
\* varints: a later control field replaces an earlier one; a key of field 0,
\* a key without its value or a value that is cut fail.
RECURSIVE DecodePack(_, _)
DecodePack(data, control) ==
    IF data = <<>> THEN [ok |-> TRUE, control |-> control]
    ELSE IF Len(data) < 2 \/ data[1] \notin {16, 80, 120} \/ data[2] >= 128
    THEN [ok |-> FALSE, control |-> control]
    ELSE DecodePack(SubSeq(data, 3, Len(data)), ControlOfKey(data[1], data[2]))

MixedErr(r, why) == [r EXCEPT !.result = [kind |-> "error", why |-> why]]
MixedNone(r) == [r EXCEPT !.result = [kind |-> "none", why |-> ""]]

\* read_exact of n bytes: on a short file the bytes left are consumed and the
\* read fails with "failed to fill whole buffer".
CanRead(r, n) == Len(r.file) >= n
Taken(r, n) == SubSeq(r.file, 1, n)
Advance(r, n) == [r EXCEPT !.file = SubSeq(@, n + 1, Len(@))]
ShortRead(r) == MixedErr([r EXCEPT !.file = <<>>], "failed to fill whole buffer")

\* is_eof_error (reader.rs 353-358) on the message of an error
is_eof_error(why) ==
    why \in {"failed to fill whole buffer", "unexpected end of file", "eof"}

\* The arm ExpectProtobuf after the length header is read (reader.rs 220-239)
ExpectProtobufArm(r, length) ==
    IF length < 3 THEN MixedErr(r, "Invalid protobuf packet length")
    ELSE IF ~CanRead(r, 1) THEN ShortRead(r)
    ELSE IF ~CanRead(r, length) THEN ShortRead(r)
    ELSE IF ~DecodePack(SubSeq(r.file, 2, length), NoControl).ok
    THEN MixedErr(Advance(r, length), "Failed to decode protobuf")
    ELSE [Advance(r, length) EXCEPT
            !.pending = <<[control |->
                              DecodePack(SubSeq(r.file, 2, length), NoControl).control,
                           raw_data |-> SubSeq(r.file, 2, length)]>>,
            !.state = "ExpectTimestamp",
            !.result = [kind |-> "continue", why |-> ""]]

\* A reader that yields the pair but stays in ExpectTimestamp
ExpectTimestampKeepsState(r, length) ==
    IF length # 8 \/ ~CanRead(r, 8) \/ r.pending = <<>>
    THEN MixedErr(r, "Invalid timestamp packet")
    ELSE [Advance(r, 8) EXCEPT
            !.pending = <<>>,
            !.result = [kind |-> "packet", why |-> "",
                        timestamp |-> u64_from_be_bytes(Taken(r, 8)),
                        control |-> r.pending[1].control,
                        raw_data |-> r.pending[1].raw_data]]

\* The arm ExpectTimestamp (reader.rs 241-263)
ExpectTimestampArm(r, length) ==
    IF length # 8 THEN MixedErr(r, "Invalid timestamp packet length")
    ELSE IF ~CanRead(r, 8) THEN ShortRead(r)
    ELSE IF ~ValidMicros(u64_from_be_bytes(Taken(r, 8)))
    THEN MixedErr(Advance(r, 8), "Invalid timestamp")
    ELSE IF r.pending = <<>> THEN MixedErr(Advance(r, 8), "Missing protobuf packet")
    ELSE [Advance(r, 8) EXCEPT
            !.pending = <<>>,
            !.state = "ExpectProtobuf",
            !.result = [kind |-> "packet", why |-> "",
                        timestamp |-> u64_from_be_bytes(Taken(r, 8)),
                        control |-> r.pending[1].control,
                        raw_data |-> r.pending[1].raw_data]]

\* One turn of the loop of read_packet (reader.rs 212-264)
MixedTurn(r) ==
    IF ~CanRead(r, 2)
    THEN IF is_eof_error("failed to fill whole buffer")
         THEN MixedNone([r EXCEPT !.file = <<>>])
         ELSE ShortRead(r)
    ELSE IF r.state = "ExpectProtobuf"
    THEN ExpectProtobufArm(Advance(r, 2), u16_from_be_bytes(Taken(r, 2)))
    ELSE ExpectTimestampArm(Advance(r, 2), u16_from_be_bytes(Taken(r, 2)))

\* MixedPacketReader::read_packet (reader.rs 211-267): the loop goes on after
\* a protobuf record was parked.
RECURSIVE MixedLoop(_)
MixedLoop(r) == IF r.result.kind = "continue" THEN MixedLoop(MixedTurn(r)) ELSE r

mixed_read_packet(r) ==
    MixedLoop([r EXCEPT !.result = [kind |-> "continue", why |-> ""]])

\* ---- The reader as a state machine: one action per read_packet call, as
\* read_packets (reader.rs 269-275) makes them until None or an error.

Reader == [file |-> mixed_file, state |-> mixed_state,
           pending |-> pending_protobuf, result |-> [kind |-> "continue", why |-> ""]]

MixedReadPacket ==
    /\ mixed_last \in {"start", "packet"}
    /\ mixed_file' = mixed_read_packet(Reader).file
    /\ mixed_state' = mixed_read_packet(Reader).state
    /\ pending_protobuf' = mixed_read_packet(Reader).pending
    /\ mixed_last' = mixed_read_packet(Reader).result.kind
    /\ mixed_yielded' =
          IF mixed_read_packet(Reader).result.kind = "packet"
          THEN Append(mixed_yielded,
                      [timestamp |-> mixed_read_packet(Reader).result.timestamp,
                       control |-> mixed_read_packet(Reader).result.control,
                       raw_data |-> mixed_read_packet(Reader).result.raw_data])
          ELSE mixed_yielded
    /\ UNCHANGED <<mixed_source, convAll, codecVars, clientVars, packetVars,
                   editorVars, moreVars>>

\* ---- Capture files: up to MaxPairs pairs, cut at any length
MaxPairs == 2

to_be_bytes_u16(v) == <<v \div 256, v % 256>>

\* payloads: an empty DataPack, data = true, data then cache_ended = false,
\* and bytes that do not decode (a key of field 0)
Payloads == {<<>>, <<16, 1>>, <<16, 1, 120, 0>>, <<1, 1>>}
\* timestamps: 100 and 7 microseconds, and a value chrono cannot represent
TimestampBytes == {<<0, 0, 0, 0, 0, 0, 0, 100>>, <<0, 0, 0, 0, 0, 0, 0, 7>>,
                   <<127, 0, 0, 0, 0, 0, 0, 0>>}
Pairs == [payload : Payloads, micros : TimestampBytes]

\* The protobuf record and the timestamp record of a pair
ProtobufRecord(pair) == to_be_bytes_u16(Len(pair.payload) + 1) \o <<1>> \o pair.payload
TimestampRecord(pair) == to_be_bytes_u16(8) \o pair.micros
PairBytes(pair) == ProtobufRecord(pair) \o TimestampRecord(pair)
FileOf(pairs) == Flatten([i \in 1..Len(pairs) |-> PairBytes(pairs[i])])

PairLists == UNION {[1..n -> Pairs] : n \in 0..MaxPairs}

InitMixed ==
    /\ ConvInit(FALSE, NoTime, NoTime, NoTime, FALSE, 0)
    /\ CodecIdle
    /\ ClientIdle
    /\ \E pairs \in PairLists : \E cut \in 0..Len(FileOf(pairs)) :
          /\ mixed_source = [pairs |-> pairs, cut |-> cut]
          /\ mixed_file = SubSeq(FileOf(pairs), 1, cut)
    /\ mixed_state = "ExpectProtobuf"
    /\ pending_protobuf = <<>>
    /\ mixed_yielded = <<>>
    /\ mixed_last = "start"
    /\ PacketIdle
    /\ EditorIdle
    /\ MoreIdle

NextMixed == MixedReadPacket

SpecMixed == InitMixed /\ [][NextMixed]_vars

\* What the claims say of the file the reader was given
Decodable(pair) == DecodePack(pair.payload, NoControl).ok
PacketOf(pair) ==
    [timestamp |-> u64_from_be_bytes(pair.micros),
     control |-> DecodePack(pair.payload, NoControl).control,
     raw_data |-> pair.payload]
WholeFile == mixed_source.cut = Len(FileOf(mixed_source.pairs))
ReadingEnded == mixed_last \notin {"start", "packet"}
YieldedArePairs(n) ==
    /\ Len(mixed_yielded) = n
    /\ \A i \in 1..n : mixed_yielded[i] = PacketOf(mixed_source.pairs[i])
PairsYieldedInOrder ==
    /\ Len(mixed_yielded) <= Len(mixed_source.pairs)
    /\ YieldedArePairs(Len(mixed_yielded))
    /\ mixed_last = "packet" =>
          mixed_state = "ExpectProtobuf" /\ pending_protobuf = <<>>
    /\ ReadingEnded =>
          mixed_last = "none" /\ YieldedArePairs(Len(mixed_source.pairs))

\* C11 as stated: for a whole file of n pairs whose payloads decode as a
\* DataPack, the reader yields exactly the n pairs in file order, each with
\* its payload and timestamp, and is back in ExpectProtobuf with nothing
\* parked after each yielded packet.
C11_EveryPairYielded ==
    (WholeFile /\ \A i \in 1..Len(mixed_source.pairs) :
                     Decodable(mixed_source.pairs[i]))
        => PairsYieldedInOrder

\* C11 as the reader does it: the same, for pairs whose protobuf record has
\* a length of at least 3 and whose timestamp is one from_timestamp_micros
\* accepts.
Accepted(pair) ==
    /\ Decodable(pair)
    /\ Len(pair.payload) + 1 >= 3
    /\ ValidMicros(u64_from_be_bytes(pair.micros))
C11_EveryAcceptedPairYielded ==
    (WholeFile /\ \A i \in 1..Len(mixed_source.pairs) :
                     Accepted(mixed_source.pairs[i]))
        => PairsYieldedInOrder

\* Two accepted pairs have been read to the end of the file
C11_Witness ==
    /\ WholeFile
    /\ Len(mixed_source.pairs) = 2
    /\ \A i \in 1..2 : Accepted(mixed_source.pairs[i])
    /\ mixed_source.pairs[1] # mixed_source.pairs[2]
    /\ mixed_last = "none"
    /\ Len(mixed_yielded) = 2

\* The offset of the cut inside the pair it falls in, 0 when the file ends
\* at a pair boundary, and the pair it falls in
RECURSIVE CutIn(_, _)
CutIn(pairs, cut) ==
    IF pairs = <<>> \/ cut = 0 THEN [offset |-> 0, pair |-> <<>>, before |-> 0]
    ELSE IF cut >= Len(PairBytes(Head(pairs)))
    THEN [CutIn(Tail(pairs), cut - Len(PairBytes(Head(pairs))))
            EXCEPT !.before = @ + 1]
    ELSE [offset |-> cut, pair |-> <<Head(pairs)>>, before |-> 0]

\* The file ends right after the 2-byte length prefix of a record, inside the
\* protobuf payload, or between the protobuf record and its timestamp record
EndsAt(offset, pair) ==
    \/ offset >= 2 /\ offset <= Len(ProtobufRecord(pair))
    \/ offset = Len(ProtobufRecord(pair)) + 2
EndsInsidePair ==
    /\ CutIn(mixed_source.pairs, mixed_source.cut).offset > 0
    /\ EndsAt(CutIn(mixed_source.pairs, mixed_source.cut).offset,
              CutIn(mixed_source.pairs, mixed_source.cut).pair[1])

\* C12: when the file ends inside a pair after pairs the reader accepts,
\* read_packet ends with end-of-stream, never with an error, and the packets
\* yielded are the whole pairs before the cut.
C12_EofInsidePairIsEndOfStream ==
    (/\ EndsInsidePair
     /\ \A i \in 1..Len(mixed_source.pairs) : Accepted(mixed_source.pairs[i])
     /\ ReadingEnded)
        => /\ mixed_last = "none"
           /\ YieldedArePairs(CutIn(mixed_source.pairs, mixed_source.cut).before)

-----------------------------------------------------------------------------
(* AlsPacket (packet.rs 1-80): the requests the client sends.  A token or a *)
(* room id is its byte length n; its bytes are n times the letter a.        *)

MAGIC_DELIMITER == <<0, 130, 1>>
KEEP_ALIVE_MAGIC == <<0, 72, 1>>

\* AlsPacket::get_varint (packet.rs 20-34): the loop runs while len > 0
RECURSIVE get_varint(_)
get_varint(length) ==
    IF length > 0
    THEN IF length \div 128 = 0
         THEN <<length % 128>>
         ELSE <<(length % 128) + 128>> \o get_varint(length \div 128)
    ELSE <<>>

StringBytes(n) == [i \in 1..n |-> 97]

Returned(bytes) == [status |-> "ok", bytes |-> bytes]
Panicked(why) == [status |-> why, bytes |-> <<>>]

\* The length header written last (packet.rs 63-66)
WithLength(bytes) ==
    Returned(to_be_bytes_u16((Len(bytes) - 2) % U16) \o SubSeq(bytes, 3, Len(bytes)))

\* `varint[0] + k` on u8 (packet.rs 43, 45): with overflow checks the sum
\* panics above 255, without them it wraps.
AddU8(a, k, overflow_checks) ==
    IF a + k > 255 /\ overflow_checks THEN 0 - 1 ELSE (a + k) % 256

\* The arm AuthenticateRequest (packet.rs 41-50): varint[0] and varint[1] are
\* indexed whatever the length of varint is.
AuthenticateBytes(n, varint, overflow_checks) ==
    IF Len(varint) < 2 THEN Panicked("panic: index out of bounds")
    ELSE IF AddU8(varint[1], 7, overflow_checks) < 0
    THEN Panicked("panic: attempt to add with overflow")
    ELSE WithLength(<<0, 0>> \o MAGIC_DELIMITER
                    \o <<AddU8(varint[1], 7, overflow_checks), varint[2]>>
                    \o <<130, 1>>
                    \o <<AddU8(varint[1], 3, overflow_checks), varint[2]>>
                    \o <<10>> \o varint \o StringBytes(n))

\* AlsPacket::to_bytes (packet.rs 36-68)
to_bytes(packet, overflow_checks) ==
    CASE packet.op = "AuthenticateRequest" ->
            AuthenticateBytes(packet.n, get_varint(packet.n % U16), overflow_checks)
      [] packet.op = "JoinRequest" ->
            WithLength(<<0, 0>> \o MAGIC_DELIMITER \o <<49, 154, 1, 46>> \o <<10>>
                       \o get_varint(packet.n % U16) \o StringBytes(packet.n))
      [] packet.op = "KeepAliveRequest" ->
            WithLength(<<0, 0>> \o MAGIC_DELIMITER \o KEEP_ALIVE_MAGIC)

\* ---- One call as a state machine
PacketCall(overflow_checks) ==
    /\ pk_call.op # "none"
    /\ pk_result.status = "pending"
    /\ pk_result' = IF pk_call.op = "get_varint"
                    THEN Returned(get_varint(pk_call.n))
                    ELSE to_bytes(pk_call, overflow_checks)
    /\ UNCHANGED <<pk_call, convAll, codecVars, clientVars, mixedVars, editorVars,
                   moreVars>>

MaxVarint == 300
MaxToken == 260

PacketCalls ==
    {[op |-> "get_varint", n |-> n] : n \in 0..MaxVarint \cup {16383, 16384, 65535}}
    \cup {[op |-> "AuthenticateRequest", n |-> n] : n \in 0..MaxToken}
    \cup {[op |-> "JoinRequest", n |-> n] : n \in {0, 44}}
    \cup {[op |-> "KeepAliveRequest", n |-> 0]}

InitPacket ==
    /\ ConvInit(FALSE, NoTime, NoTime, NoTime, FALSE, 0)
    /\ CodecIdle
    /\ ClientIdle
    /\ MixedIdle
    /\ pk_call \in PacketCalls
    /\ pk_result = [status |-> "pending", bytes |-> <<>>]
    /\ EditorIdle
    /\ MoreIdle

NextPacket == \E overflow_checks \in BOOLEAN : PacketCall(overflow_checks)

SpecPacket == InitPacket /\ [][NextPacket]_vars

CallDone(op) == pk_call.op = op /\ pk_result.status # "pending"

\* C13: KeepAliveRequest.to_bytes() is exactly 00 03 00 48 01.
C13_KeepAliveIsFiveBytes ==
    CallDone("KeepAliveRequest") => pk_result = Returned(<<0, 3, 0, 72, 1>>)

\* The protobuf base-128 encoding of n, least significant group first
RECURSIVE Base128(_)
Base128(n) ==
    IF n < 128 THEN <<n>> ELSE <<(n % 128) + 128>> \o Base128(n \div 128)

\* C14: for a token of n >= 1 bytes with n + 7 < 2^14, to_bytes returns,
\* without failing, the big-endian count of the bytes that follow, then
\* 00 82 01, varint(n+7), 82 01, varint(n+3), 0a, varint(n), and the token.
C14_AuthenticateRecipe ==
    (CallDone("AuthenticateRequest") /\ pk_call.n >= 1 /\ pk_call.n + 7 < 16384)
        => pk_result =
              Returned(to_be_bytes_u16(Len(<<0, 130, 1>> \o Base128(pk_call.n + 7)
                                           \o <<130, 1>> \o Base128(pk_call.n + 3)
                                           \o <<10>> \o Base128(pk_call.n))
                                       + pk_call.n)
                       \o <<0, 130, 1>> \o Base128(pk_call.n + 7)
                       \o <<130, 1>> \o Base128(pk_call.n + 3)
                       \o <<10>> \o Base128(pk_call.n) \o StringBytes(pk_call.n))

\* What a base-128 byte list decodes to
RECURSIVE Base128Value(_)
Base128Value(bytes) ==
    IF bytes = <<>> THEN 0 ELSE (Head(bytes) % 128) + 128 * Base128Value(Tail(bytes))

\* C15: for every u16 n, 0 included, get_varint(n) is a non-empty byte list
\* with the high bit set on every byte but the last, which decodes to n.
C15_VarintIsBase128 ==
    CallDone("get_varint") =>
        /\ pk_result.status = "ok"
        /\ pk_result.bytes # <<>>
        /\ \A i \in 1..Len(pk_result.bytes) :
              (pk_result.bytes[i] >= 128) <=> (i < Len(pk_result.bytes))
        /\ Base128Value(pk_result.bytes) = pk_call.n

-----------------------------------------------------------------------------
(* Editor (editor.rs 14-230).  The payload of an UpdateObject is the record *)
(* [size, timeline_id, start_time_ms]: its byte length and, when the length *)
(* is the 16 bytes of a TimelineCommandPacket, the two values it holds      *)
(* (start_time_sec is kept in milliseconds).  An editor is the record       *)
(* [timeline_receiver_objects, modified_states, current_timeline_index,     *)
(* frames, modified]: its three fields, the frames of the packet as         *)
(* modified so far and the local `modified`.                                *)

PAYLOAD_SIZE == 16
TimelinePayload(timeline_id, start_time_ms) ==
    [size |-> PAYLOAD_SIZE, timeline_id |-> timeline_id, start_time_ms |-> start_time_ms]

\* msg.try_parse_as::<TimelineCommandPacket>() succeeds (extension.rs 124-144)
ParsesAsTimeline(payload) == payload.size = PAYLOAD_SIZE

\* modified_states.insert(object_id, payload)
InsertState(states, object_id, payload) ==
    [k \in DOMAIN states \cup {object_id} |->
        IF k = object_id THEN payload ELSE states[k]]

\* The new payload: id replacement, then timeshift (editor.rs 183-206)
NewPayload(e, payload, ids, shift) ==
    TimelinePayload(
        IF ids # <<>> THEN ids[e.current_timeline_index + 1] ELSE payload.timeline_id,
        IF shift # <<>> THEN payload.start_time_ms + shift[1] ELSE payload.start_time_ms)

\* An editor that saves the payload of every timeline update it passes
SaveFrame(e, i, ids, shift) ==
    [e EXCEPT !.modified_states =
                InsertState(@, e.frames[i].object_id, e.frames[i].payload)]

\* "New Modification Logic" on the frame at i (editor.rs 180-217)
ModifyFrame(e, i, ids, shift) ==
    IF ids = <<>> /\ shift = <<>> THEN e
    ELSE [e EXCEPT
            !.frames[i].payload = NewPayload(e, @, ids, shift),
            !.current_timeline_index =
                IF ids # <<>> THEN (@ + 1) % Len(ids) ELSE @,
            !.modified_states =
                InsertState(@, e.frames[i].object_id,
                            NewPayload(e, e.frames[i].payload, ids, shift)),
            !.modified = TRUE]

\* An arm UpdateObject that never restores a cached payload
TrackUpdateNoRestore(e, i, is_cached_state, ids, shift) ==
    IF e.frames[i].object_id \notin e.timeline_receiver_objects THEN e
    ELSE IF ~ParsesAsTimeline(e.frames[i].payload) THEN e
    ELSE ModifyFrame(e, i, ids, shift)

\* The arm UpdateObject of the frame loop (editor.rs 152-220)
TrackUpdate(e, i, is_cached_state, ids, shift) ==
    IF e.frames[i].object_id \notin e.timeline_receiver_objects THEN e
    ELSE IF ~ParsesAsTimeline(e.frames[i].payload) THEN e
    ELSE IF is_cached_state /\ e.frames[i].object_id \in DOMAIN e.modified_states
    THEN [e EXCEPT !.frames[i].payload = e.modified_states[e.frames[i].object_id],
                   !.modified = TRUE]
    ELSE ModifyFrame(e, i, ids, shift)

\* One frame of the loop (editor.rs 141-224); a prefab name ends with
\* TimelineReceiver when it is the name of the model that does.
TrackFrame(e, i, is_cached_state, ids, shift) ==
    CASE IsInstantiate(e.frames[i]) ->
            IF e.frames[i].prefab_name = "TimedAsset/TimelineReceiver"
            THEN [e EXCEPT !.timeline_receiver_objects = @ \cup {e.frames[i].object_id}]
            ELSE e
      [] IsUpdate(e.frames[i]) -> TrackUpdate(e, i, is_cached_state, ids, shift)
      [] OTHER -> e

RECURSIVE TrackFrames(_, _, _, _, _)
TrackFrames(e, i, is_cached_state, ids, shift) ==
    IF i > Len(e.frames) THEN e
    ELSE TrackFrames(TrackFrame(e, i, is_cached_state, ids, shift), i + 1,
                     is_cached_state, ids, shift)

\* Editor::track_and_modify_packet (editor.rs 133-228)
track_and_modify_packet(e, is_first_file, has_seen_cache_ended, ids, shift) ==
    TrackFrames(e, 1, ~is_first_file /\ ~has_seen_cache_ended, ids, shift)

\* ---- Editor::process (editor.rs 64-131) as a state machine: one action per
\* packet of the while loop, one per file boundary.

EditorNow(frames) ==
    [timeline_receiver_objects |-> timeline_receiver_objects,
     modified_states |-> modified_states,
     current_timeline_index |-> current_timeline_index,
     frames |-> frames, modified |-> FALSE]

SeenCacheEnded(packet) ==
    ed_cursor.has_seen_cache_ended \/ packet.control.tag = "CacheEnded"

\* The body of the loop for the packet read (editor.rs 114-123); e is the
\* editor after track_and_modify_packet.
Written(packet, e) ==
    /\ timeline_receiver_objects' = e.timeline_receiver_objects
    /\ modified_states' = e.modified_states
    /\ current_timeline_index' = e.current_timeline_index
    /\ ed_output' = [ed_output EXCEPT ![ed_cursor.file] =
                        Append(@, to_vec(PacketInfo(packet.timestamp, packet.control,
                                                    e.frames)))]
    /\ ed_cursor' = [ed_cursor EXCEPT !.record = @ + 1,
                                      !.has_seen_cache_ended = SeenCacheEnded(packet)]

EditRead(packet) ==
    Written(packet,
            track_and_modify_packet(EditorNow(packet.frames), ed_cursor.file = 1,
                                    SeenCacheEnded(packet), target_timeline_ids,
                                    timeshift_ms))

EditPacket ==
    /\ ed_cursor.file <= Len(ed_input)
    /\ ed_cursor.record <= Len(ed_input[ed_cursor.file])
    /\ read_packet(ed_input[ed_cursor.file][ed_cursor.record]).ok
    /\ EditRead(read_packet(ed_input[ed_cursor.file][ed_cursor.record]))
    /\ UNCHANGED <<target_timeline_ids, timeshift_ms, ed_input>>
    /\ UNCHANGED <<convAll, codecVars, clientVars, mixedVars, packetVars, moreVars>>

\* read_packet returned None: the file is flushed and the next one opened
EditNextFile ==
    /\ ed_cursor.file <= Len(ed_input)
    /\ ed_cursor.record > Len(ed_input[ed_cursor.file])
    /\ ed_cursor' = [file |-> ed_cursor.file + 1, record |-> 1,
                     has_seen_cache_ended |-> FALSE]
    /\ UNCHANGED <<target_timeline_ids, timeshift_ms, timeline_receiver_objects,
                   modified_states, current_timeline_index, ed_input, ed_output>>
    /\ UNCHANGED <<convAll, codecVars, clientVars, mixedVars, packetVars, moreVars>>

\* ---- Input directories: up to MaxFiles files of up to MaxRecords records
MaxFiles == 2
MaxRecords == 2

EditTemplates ==
    {Template(Data(1), <<Inst(5, "TimedAsset/TimelineReceiver", SmallLen)>>),
     Template(Data(1), <<Upd(5, TimelinePayload(1, 1000), SmallLen)>>),
     Template(Data(1), <<Upd(5, [size |-> 4, timeline_id |-> 0, start_time_ms |-> 0],
                             SmallLen)>>),
     Template(CacheEnded(1), <<>>)}

\* A record of an input file: written frames first as to_vec writes them, or
\* in field-number order as another encoder writes them
InputRecord(p, field_order) ==
    IF field_order
    THEN [to_vec(p) EXCEPT !.fields = encode_data_pack_field_order(p)]
    ELSE to_vec(p)

TemplateLists == UNION {[1..n -> EditTemplates] : n \in 0..MaxRecords}

InputFile(f, templates, field_order) ==
    [r \in 1..Len(templates) |->
        InputRecord(PacketInfo((10 * f + r) * Second, templates[r].control,
                               templates[r].frames), field_order)]

InitEditor ==
    /\ ConvInit(FALSE, NoTime, NoTime, NoTime, FALSE, 0)
    /\ CodecIdle
    /\ ClientIdle
    /\ MixedIdle
    /\ PacketIdle
    /\ MoreIdle
    /\ \E ids \in {<<>>, <<7>>, <<7, 8>>}, shift \in {<<>>, <<500>>},
          field_order \in BOOLEAN, n \in 1..MaxFiles :
          \E lists \in [1..n -> TemplateLists] :
             EditorNew(ids, shift,
                       [f \in 1..n |-> InputFile(f, lists[f], field_order)])

NextEditor == EditPacket \/ EditNextFile

SpecEditor == InitEditor /\ [][NextEditor]_vars

\* C16: with an empty target timeline-ID list and no timeshift, the records
\* written for a file read back as the packets read from it, in order (same
\* timestamp, control and frames with their payloads), one per packet when
\* the file is done, whichever file it is and whether or not CacheEnded has
\* been seen; and the cached-replacement map stays empty.
C16_EmptyEditIsIdentity ==
    (target_timeline_ids = <<>> /\ timeshift_ms = <<>>) =>
        /\ modified_states = <<>>
        /\ \A f \in 1..Len(ed_input) :
              /\ Len(ed_output[f]) <= Len(ed_input[f])
              /\ f < ed_cursor.file => Len(ed_output[f]) = Len(ed_input[f])
              /\ \A r \in 1..Len(ed_output[f]) :
                    read_packet(ed_output[f][r]) = read_packet(ed_input[f][r])

\* Two files were edited with nothing to change; the second one opens with an
\* update of a TimelineReceiver known from the first, before any CacheEnded
C16_Witness ==
    /\ target_timeline_ids = <<>> /\ timeshift_ms = <<>>
    /\ Len(ed_input) = 2
    /\ ed_cursor.file = 3
    /\ 5 \in timeline_receiver_objects
    /\ Len(ed_output[2]) = 2
    /\ read_packet(ed_output[2][1]).frames = <<Upd(5, TimelinePayload(1, 1000), SmallLen)>>
    /\ read_packet(ed_output[2][2]).control = CacheEnded(1)

-----------------------------------------------------------------------------
(* SpecSkip: the converter on captured timestamps with data_start_time      *)
(* given, on packets that arrive before, at and after it, and on one that   *)
(* arrives late with an early timestamp.                                    *)

SkipTemplates ==
    {JoinPacket,
     Template(Data(1), <<Inst(1, "Stage/Prop", SmallLen)>>),
     Template(Data(1), <<Inst(2, "Stage/Prop", SmallLen)>>),
     Template(Data(1), <<Upd(1, 7, SmallLen)>>),
     Template(NoControl, <<Upd(1, 8, SmallLen), Upd(2, 9, SmallLen)>>),
     Template(Data(1), <<Destroy(1)>>)}

SkipSteps == {1 * Second, 2 * Second}

\* A packet captured late that carries a timestamp before data_start_time
EarlyPacket == PacketInfo(1 * Second, Data(1), <<Upd(2, 6, SmallLen)>>)

InitSkip ==
    /\ ConvInit(FALSE, NoTime, SkipUntil, NoTime, FALSE, 0)
    /\ CodecIdle
    /\ ClientIdle
    /\ ToolIdle

NextSkip ==
    \/ \E packet_info \in Stamped(SkipTemplates, SkipSteps) :
            ProcessPacket(packet_info)
    \/ ProcessPacket(EarlyPacket)
    \/ Finalize

SpecSkip == InitSkip /\ [][NextSkip]_vars

\* Whether frame i is the last frame of its object in frames
LastOfObject(frames, i) ==
    \A j \in (i + 1)..Len(frames) : frames[j].object_id # frames[i].object_id

\* Whether the list shows what frame did to its object
ListShows(dataframes, frame) ==
    CASE IsInstantiate(frame) ->
            \E k \in 1..Len(dataframes) :
                /\ IsInstantiate(dataframes[k])
                /\ dataframes[k].object_id = frame.object_id
      [] IsUpdate(frame) ->
            \E k \in 1..Len(dataframes) :
                /\ IsUpdate(dataframes[k])
                /\ dataframes[k].object_id = frame.object_id
                /\ dataframes[k].payload = frame.payload
      [] IsDestroy(frame) ->
            \A k \in 1..Len(dataframes) :
                dataframes[k].object_id # frame.object_id
      [] OTHER -> TRUE

ListReflects(dataframes, frames) ==
    \A i \in 1..Len(frames) :
        (IsInstantiate(frames[i]) \/ IsUpdate(frames[i]) \/ IsDestroy(frames[i]))
        /\ LastOfObject(frames, i)
            => ListShows(dataframes, frames[i])

\* The number of packets of all segments
RECURSIVE PacketCount(_)
PacketCount(segs) ==
    IF segs = <<>> THEN 0 ELSE Len(Head(segs).packets) + PacketCount(Tail(segs))

\* Whether packet is the last packet of the last segment, with the frames
\* it came with, in order
IsLastOfSegments(segs, packet) ==
    /\ segs # <<>>
    /\ Last(segs).packets # <<>>
    /\ LET kept == Last(Last(segs).packets) IN
        /\ kept.timestamp = packet.timestamp
        /\ Len(kept.frames) = Len(packet.frames)
        /\ \A i \in 1..Len(kept.frames) :
            /\ kept.frames[i].kind = packet.frames[i].kind
            /\ kept.frames[i].object_id = packet.frames[i].object_id
            /\ kept.frames[i].payload = packet.frames[i].payload

\* A packet with Instantiate, Update or Destroy frames read in UpdateObjects
\* on captured timestamps
UpdateObjectsStep ==
    /\ nprocessed' = nprocessed + 1
    /\ state = "UpdateObjects"
    /\ ~auto_timestamp
    /\ last_packet'.control.tag \in {"None", "Data"}
    /\ Retained(last_packet'.frames) # <<>>

SkippedStep ==
    /\ segments' = segments
    /\ data_start_time' = data_start_time
    /\ ListReflects(initial_dataframes', last_packet'.frames)

AdmittedStep ==
    /\ PacketCount(segments') = PacketCount(segments) + 1
    /\ IsLastOfSegments(segments', last_packet')
    /\ data_start_time' = NoTime

C17_Step ==
    UpdateObjectsStep =>
        IF data_start_time # NoTime /\ last_packet'.timestamp < data_start_time
        THEN SkippedStep
        ELSE AdmittedStep

\* C17: with data_start_time = T on captured timestamps, a packet read in
\* UpdateObjects with a timestamp before T enters no segment while its
\* Instantiate, Update and Destroy frames still show in the
\* initial-dataframes list; a packet at T or later is appended to the
\* segments; and from that packet on the filter is unset, so that a later
\* packet is appended whatever its timestamp.
C17_DataStartTimeFilter == [][C17_Step]_vars

\* A packet before T was skipped and mirrored, and the packet that follows
\* it, stamped exactly T, was appended and unset the filter.
C17_Witness ==
    /\ nprocessed = 4
    /\ last_packet.timestamp = SkipUntil
    /\ data_start_time = NoTime
    /\ IsLastOfSegments(segments, last_packet)
    /\ \E i \in 1..Len(segments[1].packets) :
        \E k \in 1..Len(segments[1].packets[i].frames) :
            /\ IsUpdate(segments[1].packets[i].frames[k])
            /\ segments[1].packets[i].frames[k].target = "CurrentPlayer"

-----------------------------------------------------------------------------
(* SpecSpread: handle_auto_timestamp called once on a range of a buffer of   *)
(* its own, with and without an update of a music broadcaster in the range. *)

MaxRange == 7

\* A buffer of n packets as captured (every timestamp 0), the packet at
\* music, if any, updating the music broadcaster, object 5
RangeBuffer(n, music) ==
    [i \in 1..n |->
        PacketInfo(0, Data(1),
                   <<Upd(IF i = music THEN 5 ELSE 1, 7, SmallLen)>>)]

\* Four seconds, five time units (fewer than the packets of a long range),
\* no time at all, and time going backwards
RangeDeltas == {4 * Second, 5, 0, 0 - Second}

RangeCalls ==
    {[buffer |-> RangeBuffer(n, music), start_index |-> a, end_index |-> b,
      start_time |-> Second, end_time |-> Second + d,
      music_broadcasters |-> {5}] :
        n \in {3, MaxRange}, music \in {0, 2}, a \in {1, 2, 3}, b \in {1, 3, MaxRange},
        d \in RangeDeltas}

\* One call of handle_auto_timestamp (converter.rs 940-1099)
AutoTimestampCall ==
    /\ range_result.status = "pending"
    /\ LET r == handle_auto_timestamp(range_call.buffer, range_call.start_index,
                    range_call.end_index, range_call.start_time,
                    range_call.end_time, range_call.music_broadcasters)
       IN  range_result' = [status |-> IF r.ok THEN "Ok" ELSE "Err",
                            buffer |-> r.buffer]
    /\ UNCHANGED <<range_call, convAll, codecVars, clientVars, mixedVars,
                   packetVars, editorVars, analyzeVars, mergeVars, bufferVars>>

InitSpread ==
    /\ ConvInit(FALSE, NoTime, NoTime, NoTime, FALSE, 0)
    /\ CodecIdle
    /\ ClientIdle
    /\ MixedIdle
    /\ PacketIdle
    /\ EditorIdle
    /\ range_call \in {c \in RangeCalls : c.end_index <= Len(c.buffer)}
    /\ range_result = [status |-> "pending", buffer |-> <<>>]
    /\ AnalyzeIdle
    /\ MergeIdle
    /\ BufferIdle

NextSpread == AutoTimestampCall

SpecSpread == InitSpread /\ [][NextSpread]_vars

\* A call on a range of more than one packet without a music packet
EvenRange ==
    /\ range_result.status # "pending"
    /\ range_call.start_index < range_call.end_index
    /\ MusicPacketCount(range_call.buffer, range_call.start_index,
                        range_call.end_index, range_call.music_broadcasters) = 0

\* The timestamps the range has after the call
Received(i) == range_result.buffer[i].timestamp

\* C18 as stated: in a range of two anchors without a music packet, the
\* packet at start_index + k has start_time + k * (end_time - start_time) /
\* (end_index - start_index), for every k below end_index - start_index, and
\* the packet at end_index has end_time.
C18_UniformSpread ==
    EvenRange =>
        /\ \A k \in 0..(range_call.end_index - range_call.start_index - 1) :
            Received(range_call.start_index + k) =
                range_call.start_time
                + (k * (range_call.end_time - range_call.start_time))
                    \div (range_call.end_index - range_call.start_index)
        /\ Received(range_call.end_index) = range_call.end_time

\* C18, amended: when moreover end_time is after start_time, the packet at
\* start_index + k has start_time + k * time_step, where time_step is
\* (end_time - start_time) / (end_index - start_index) rounded down to a
\* whole time unit, and the packet at end_index has end_time; when end_time
\* is not after start_time the call is an error and no packet is retimed.
C18_UniformSpreadOfTruncatedStep ==
    EvenRange =>
        IF range_call.end_time > range_call.start_time
        THEN /\ range_result.status = "Ok"
             /\ \A k \in 0..(range_call.end_index - range_call.start_index - 1) :
                    Received(range_call.start_index + k) =
                        range_call.start_time
                        + k * ((range_call.end_time - range_call.start_time)
                                \div (range_call.end_index - range_call.start_index))
             /\ Received(range_call.end_index) = range_call.end_time
        ELSE /\ range_result.status = "Err"
             /\ range_result.buffer = range_call.buffer

\* The range of seven packets between anchors four seconds apart has been
\* retimed, its fourth packet two time units short of the middle.
C18_Witness ==
    /\ EvenRange
    /\ range_call.start_index = 1
    /\ range_call.end_index = MaxRange
    /\ range_call.end_time - range_call.start_time = 4 * Second
    /\ Received(4) = range_call.start_time + 2 * Second - 2
    /\ Received(MaxRange) = range_call.end_time

-----------------------------------------------------------------------------
(* PacketAnalyzer, PacketStats and PacketFilter: proto/analyzer.rs.  A       *)
(* packet of the analyzer is [timestamp, control, frames, raw_data]; the     *)
(* map unknown_fields is a function whose domain is the set of its keys.    *)

AnalyzerPacket(timestamp, control, frames, raw_data) ==
    [timestamp |-> timestamp, control |-> control, frames |-> frames,
     raw_data |-> raw_data]

\* read_varint (analyzer.rs 287-311) at position pos (0-based) of data:
\* [ok, value, pos]
RECURSIVE read_varint_from(_, _, _, _)
read_varint_from(data, pos, result, shift) ==
    IF pos >= Len(data) THEN [ok |-> FALSE, value |-> result, pos |-> pos]
    ELSE LET byte == data[pos + 1]
             value == result + (byte % 128) * (2 ^ shift)
         IN  IF byte < 128 THEN [ok |-> TRUE, value |-> value, pos |-> pos + 1]
             ELSE IF shift + 7 >= 64
             THEN [ok |-> FALSE, value |-> value, pos |-> pos + 1]
             ELSE read_varint_from(data, pos + 1, value, shift + 7)

read_varint(data, pos) == read_varint_from(data, pos, 0, 0)

\* The rest of parse_field once the tag is read (analyzer.rs 249-284)
SkipFieldData(data, tag) ==
    LET wire_type == tag.value % 8
        remaining == Len(data) - tag.pos
        len == read_varint(data, tag.pos)
    IN  CASE wire_type = 0 ->
                [ok |-> read_varint(data, tag.pos).ok,
                 pos |-> read_varint(data, tag.pos).pos]
          [] wire_type = 1 -> [ok |-> remaining >= 8, pos |-> tag.pos + 8]
          [] wire_type = 2 ->
                [ok |-> len.ok /\ Len(data) - len.pos >= len.value,
                 pos |-> len.pos + len.value]
          [] wire_type = 5 -> [ok |-> remaining >= 4, pos |-> tag.pos + 4]
          [] OTHER -> [ok |-> FALSE, pos |-> tag.pos]

\* parse_field (analyzer.rs 246-285): [ok, field_number, pos]
parse_field(data, pos) ==
    LET tag == read_varint(data, pos) IN
    IF ~tag.ok THEN [ok |-> FALSE, field_number |-> 0, pos |-> pos]
    ELSE [ok |-> SkipFieldData(data, tag).ok,
          field_number |-> tag.value \div 8,
          pos |-> SkipFieldData(data, tag).pos]

\* parse_protobuf_fields (analyzer.rs 232-244): the field numbers, in order,
\* up to the first field that does not parse
RECURSIVE parse_protobuf_fields_from(_, _)
parse_protobuf_fields_from(data, pos) ==
    IF pos >= Len(data) \/ ~parse_field(data, pos).ok THEN <<>>
    ELSE <<parse_field(data, pos).field_number>>
            \o parse_protobuf_fields_from(data, parse_field(data, pos).pos)

parse_protobuf_fields(data) == parse_protobuf_fields_from(data, 0)

\* is_known_field_number (analyzer.rs 313-318)
is_known_field_number(field_number) ==
    field_number \in {1, 2, 3, 4, 6, 7, 8, 9, 10, 11, 14, 15, 16,
                      128, 129, 130, 143, 144, 147}

\* *map.entry(key).or_insert(0) += count
AddCount(map, key, count) ==
    [k \in DOMAIN map \cup {key} |->
        (IF k \in DOMAIN map THEN map[k] ELSE 0) + (IF k = key THEN count ELSE 0)]

\* analyze_control (analyzer.rs 59-69)
analyze_control(stats, control) ==
    [stats EXCEPT
        !.control.data_count = @ + (IF control.tag = "Data" THEN 1 ELSE 0),
        !.control.pong_count = @ + (IF control.tag = "Pong" THEN 1 ELSE 0),
        !.control.segment_started_at_count =
            @ + (IF control.tag = "SegmentStartedAt" THEN 1 ELSE 0),
        !.control.cache_ended_count =
            @ + (IF control.tag = "CacheEnded" THEN 1 ELSE 0),
        !.control.total = @ + 1]

\* analyze_frame (analyzer.rs 71-93): a frame without message counts nowhere
analyze_frame(stats, frame) ==
    IF frame.kind = "None" THEN stats
    ELSE [stats EXCEPT
            !.frames.instantiate_object_count =
                @ + (IF frame.kind = "InstantiateObject" THEN 1 ELSE 0),
            !.frames.update_object_count =
                @ + (IF frame.kind = "UpdateObject" THEN 1 ELSE 0),
            !.frames.destroy_object_count =
                @ + (IF frame.kind = "DestroyObject" THEN 1 ELSE 0),
            !.frames.room_count = @ + (IF frame.kind = "Room" THEN 1 ELSE 0),
            !.frames.authorize_response_count =
                @ + (IF frame.kind = "AuthorizeResponse" THEN 1 ELSE 0),
            !.frames.join_room_response_count =
                @ + (IF frame.kind = "JoinRoomResponse" THEN 1 ELSE 0),
            !.frames.total = @ + 1]

RECURSIVE analyze_frames(_, _)
analyze_frames(stats, frames) ==
    IF frames = <<>> THEN stats
    ELSE analyze_frames(analyze_frame(stats, Head(frames)), Tail(frames))

\* analyze_unknown_fields (analyzer.rs 95-106) on the parsed field numbers
RECURSIVE count_unknown_fields(_, _)
count_unknown_fields(stats, fields) ==
    IF fields = <<>> THEN stats
    ELSE count_unknown_fields(
            IF is_known_field_number(Head(fields)) THEN stats
            ELSE [stats EXCEPT !.unknown_fields = AddCount(@, Head(fields), 1)],
            Tail(fields))

analyze_unknown_fields(stats, raw_data) ==
    count_unknown_fields(stats, parse_protobuf_fields(raw_data))

\* The parts of analyze_packet, in order (analyzer.rs 22-41)
CountPacket(stats) == [stats EXCEPT !.total_packets = @ + 1]

CountControl(stats, packet) ==
    IF packet.control.tag = "None" THEN stats
    ELSE analyze_control([stats EXCEPT !.packets_with_control = @ + 1],
                         packet.control)

CountFrames(stats, packet) ==
    IF packet.frames = <<>> THEN stats
    ELSE analyze_frames([stats EXCEPT !.packets_with_frames = @ + 1,
                                      !.total_frames = @ + Len(packet.frames)],
                        packet.frames)

\* analyze_packet (analyzer.rs 22-41)
analyze_packet(stats, packet) ==
    analyze_unknown_fields(
        CountFrames(CountControl(CountPacket(stats), packet), packet),
        packet.raw_data)

\* PacketFilter::new (analyzer.rs 172-185): a bound is [given, parses, time];
\* one that is not given or does not parse as RFC 3339 is None.
BoundOf(text) == IF text.given /\ text.parses THEN text.time ELSE NoTime

PacketFilterNew(start, end) ==
    [start_time |-> BoundOf(start), end_time |-> BoundOf(end)]

\* PacketFilter::should_include (analyzer.rs 188-200)
should_include(filter, timestamp) ==
    IF filter.start_time # NoTime /\ timestamp < filter.start_time THEN FALSE
    ELSE IF filter.end_time # NoTime /\ timestamp > filter.end_time THEN FALSE
    ELSE TRUE

\* PacketFilter::is_past_end (analyzer.rs 203-209)
is_past_end(filter, timestamp) ==
    IF filter.end_time # NoTime THEN timestamp > filter.end_time ELSE FALSE

-----------------------------------------------------------------------------
(* SpecAnalyze: analyze_file (proto/application.rs 50-117) on the packets   *)
(* read_packets returned, in any order of timestamps, with time bounds that *)
(* are absent, unparseable or given.                                        *)

MaxFilePackets == 3

\* The filter analyze_file builds from its arguments
FileFilter == PacketFilterNew(af_input.start_time, af_input.end_time)

\* One turn of the loop over the packets (application.rs 78-104)
AnalyzeNext ==
    /\ af_loop.pc = "loop"
    /\ af_loop.packet_count < Len(af_input.packets)
    /\ LET packet == af_input.packets[af_loop.packet_count + 1] IN
        IF ~should_include(FileFilter, packet.timestamp)
        THEN /\ af_loop' = [af_loop EXCEPT !.packet_count = @ + 1]
             /\ UNCHANGED <<analyzer, af_analyzed>>
        ELSE IF is_past_end(FileFilter, packet.timestamp)
        THEN /\ af_loop' = [af_loop EXCEPT !.packet_count = @ + 1,
                                           !.pc = "Reached end time filter"]
             /\ UNCHANGED <<analyzer, af_analyzed>>
        ELSE /\ analyzer' = analyze_packet(analyzer, packet)
             /\ af_analyzed' = Append(af_analyzed, af_loop.packet_count + 1)
             /\ af_loop' =
                    [packet_count |-> af_loop.packet_count + 1,
                     processed_count |-> af_loop.processed_count + 1,
                     pc |-> IF af_loop.processed_count + 1 >= af_input.max_packets
                            THEN "Reached packet limit" ELSE "loop"]
    /\ UNCHANGED <<af_input, convAll, codecVars, clientVars, mixedVars,
                   packetVars, editorVars, spreadVars, mergeVars, bufferVars>>

\* The loop is over: the statistics are shown (application.rs 106-112)
AnalyzeShow ==
    /\ \/ af_loop.pc = "loop" /\ af_loop.packet_count = Len(af_input.packets)
       \/ af_loop.pc \in {"Reached end time filter", "Reached packet limit"}
    /\ af_loop' = [af_loop EXCEPT !.pc = "shown"]
    /\ UNCHANGED <<af_input, analyzer, af_analyzed, convAll, codecVars,
                   clientVars, mixedVars, packetVars, editorVars, spreadVars,
                   mergeVars, bufferVars>>

FilePacket(timestamp) ==
    AnalyzerPacket(timestamp, Data(1), <<Upd(1, 7, SmallLen)>>, <<16, 1, 10, 1, 0>>)

FileTimes == {1, 2, 3, 4}

FilePackets ==
    UNION {[1..n -> {FilePacket(t) : t \in FileTimes}] : n \in 0..MaxFilePackets}

NotGiven == [given |-> FALSE, parses |-> FALSE, time |-> 0]
Unparseable == [given |-> TRUE, parses |-> FALSE, time |-> 0]
Rfc3339(time) == [given |-> TRUE, parses |-> TRUE, time |-> time]

InitAnalyze ==
    /\ ConvInit(FALSE, NoTime, NoTime, NoTime, FALSE, 0)
    /\ CodecIdle
    /\ ClientIdle
    /\ MixedIdle
    /\ PacketIdle
    /\ EditorIdle
    /\ SpreadIdle
    /\ MergeIdle
    /\ BufferIdle
    /\ af_input \in [packets : FilePackets,
                     start_time : {NotGiven, Unparseable, Rfc3339(2)},
                     end_time : {NotGiven, Unparseable, Rfc3339(3)},
                     max_packets : {0, 2, MaxFilePackets}]
    /\ af_loop = [packet_count |-> 0, processed_count |-> 0, pc |-> "loop"]
    /\ analyzer = DefaultStats
    /\ af_analyzed = <<>>

NextAnalyze == AnalyzeNext \/ AnalyzeShow

SpecAnalyze == InitAnalyze /\ [][NextAnalyze]_vars

\* The timestamp of the i-th packet of the file
FileTime(i) == af_input.packets[i].timestamp

\* C19: should_include(t) holds exactly when start <= t <= end, a bound that
\* is not set being ignored; is_past_end(t) holds exactly when end is set
\* and t > end; and no packet that comes after the first packet of the file
\* for which is_past_end holds is given to analyze_packet.
C19_FilterBoundsAndStop ==
    /\ \A t \in FileTimes :
        /\ should_include(FileFilter, t) <=>
            /\ (FileFilter.start_time # NoTime => FileFilter.start_time <= t)
            /\ (FileFilter.end_time # NoTime => t <= FileFilter.end_time)
        /\ is_past_end(FileFilter, t) <=>
            (FileFilter.end_time # NoTime /\ t > FileFilter.end_time)
    /\ \A k \in 1..Len(af_analyzed) :
        \A j \in 1..(af_analyzed[k] - 1) : ~is_past_end(FileFilter, FileTime(j))

\* The two functions of the filter alone are as C19 states them.
FilterBoundsAsStated ==
    \A t \in FileTimes :
        /\ should_include(FileFilter, t) <=>
            /\ (FileFilter.start_time # NoTime => FileFilter.start_time <= t)
            /\ (FileFilter.end_time # NoTime => t <= FileFilter.end_time)
        /\ is_past_end(FileFilter, t) <=>
            (FileFilter.end_time # NoTime /\ t > FileFilter.end_time)

\* The loop never leaves through the end-time break.
EndTimeBreakNeverTaken == af_loop.pc # "Reached end time filter"

-----------------------------------------------------------------------------
(* SpecMerge: one analyzer processes a sequence A, a second one a sequence  *)
(* B, a third one A followed by B; then the statistics of the first two are *)
(* merged, in both directions.                                              *)

\* ControlStats::merge (analyzer.rs 144-152)
MergeControl(self, other) ==
    [data_count |-> self.data_count + other.data_count,
     pong_count |-> self.pong_count + other.pong_count,
     segment_started_at_count |->
        self.segment_started_at_count + other.segment_started_at_count,
     cache_ended_count |-> self.cache_ended_count + other.cache_ended_count,
     total |-> self.total + other.total]

\* FrameStats::merge (analyzer.rs 165-176)
MergeFrames(self, other) ==
    [instantiate_object_count |->
        self.instantiate_object_count + other.instantiate_object_count,
     update_object_count |-> self.update_object_count + other.update_object_count,
     destroy_object_count |->
        self.destroy_object_count + other.destroy_object_count,
     room_count |-> self.room_count + other.room_count,
     authorize_response_count |->
        self.authorize_response_count + other.authorize_response_count,
     join_room_response_count |->
        self.join_room_response_count + other.join_room_response_count,
     total |-> self.total + other.total]

\* The counters of PacketStats::merge (analyzer.rs 121-127)
MergeCounters(self, other) ==
    [self EXCEPT
        !.total_packets = @ + other.total_packets,
        !.packets_with_control = @ + other.packets_with_control,
        !.packets_with_frames = @ + other.packets_with_frames,
        !.total_frames = @ + other.total_frames,
        !.control = MergeControl(@, other.control),
        !.frames = MergeFrames(@, other.frames)]

\* The loop over other.unknown_fields (analyzer.rs 129-131)
MergeUnknownFields(map, other) ==
    [k \in DOMAIN map \cup DOMAIN other |->
        (IF k \in DOMAIN map THEN map[k] ELSE 0)
        + (IF k \in DOMAIN other THEN other[k] ELSE 0)]

\* A merge that leaves unknown_fields as it is
MergeCountersOnly(self, other) == MergeCounters(self, other)

\* PacketStats::merge (analyzer.rs 120-133)
merge(self, other) ==
    [MergeCounters(self, other) EXCEPT
        !.unknown_fields = MergeUnknownFields(@, other.unknown_fields)]

MaxBatch == 2

\* Packets with each control and each message, with unknown fields 5
\* (varint), 20 (length-delimited, two-byte tag) and 12 (fixed 32), and one
\* whose raw data stops parsing at a wire type that is not supported
MergePackets ==
    {AnalyzerPacket(1, Data(1), <<>>, <<16, 1>>),
     AnalyzerPacket(2, NoControl,
                    <<Inst(1, "Stage/Prop", SmallLen), Upd(1, 7, SmallLen)>>,
                    <<10, 1, 0, 10, 1, 0, 40, 7>>),
     AnalyzerPacket(3, Pong(1), <<Destroy(1), NoFrame>>,
                    <<80, 1, 10, 1, 0, 10, 0, 162, 1, 1, 9, 40, 3>>),
     AnalyzerPacket(4, SegmentStartedAt(4),
                    <<RoomFrame([id |-> 1, len |-> 3]), JoinRoomResponse>>,
                    <<10, 1, 0, 10, 1, 0, 101, 1, 2, 3, 4>>),
     AnalyzerPacket(5, CacheEnded(1),
                    <<Frame("AuthorizeResponse", 0, "", "", "None", 0, 4)>>,
                    <<120, 1, 10, 1, 0, 40, 1, 43, 40, 1>>)}

\* analyze_packet by the analyzer of A and by the one that processes both
AnalyzeInA(packet) ==
    /\ merge_phase = "feeding"
    /\ analyzer_b.total_packets = 0
    /\ analyzer_a.total_packets < MaxBatch
    /\ analyzer_a' = analyze_packet(analyzer_a, packet)
    /\ analyzer_single' = analyze_packet(analyzer_single, packet)
    /\ UNCHANGED <<merge_phase, analyzer_b, merged, convAll, codecVars,
                   clientVars, mixedVars, packetVars, editorVars, spreadVars,
                   analyzeVars, bufferVars>>

\* analyze_packet by the analyzer of B and by the one that processes both
AnalyzeInB(packet) ==
    /\ merge_phase = "feeding"
    /\ analyzer_b.total_packets < MaxBatch
    /\ analyzer_b' = analyze_packet(analyzer_b, packet)
    /\ analyzer_single' = analyze_packet(analyzer_single, packet)
    /\ UNCHANGED <<merge_phase, analyzer_a, merged, convAll, codecVars,
                   clientVars, mixedVars, packetVars, editorVars, spreadVars,
                   analyzeVars, bufferVars>>

\* PacketAnalyzer::merge (analyzer.rs 55-57), B into A and A into B
MergeBoth ==
    /\ merge_phase = "feeding"
    /\ merge_phase' = "merged"
    /\ merged' = [ab |-> merge(analyzer_a, analyzer_b),
                  ba |-> merge(analyzer_b, analyzer_a)]
    /\ UNCHANGED <<analyzer_a, analyzer_b, analyzer_single, convAll, codecVars,
                   clientVars, mixedVars, packetVars, editorVars, spreadVars,
                   analyzeVars, bufferVars>>

InitMerge ==
    /\ ConvInit(FALSE, NoTime, NoTime, NoTime, FALSE, 0)
    /\ CodecIdle
    /\ ClientIdle
    /\ ToolIdle

NextMerge ==
    \/ \E packet \in MergePackets : AnalyzeInA(packet)
    \/ \E packet \in MergePackets : AnalyzeInB(packet)
    \/ MergeBoth

SpecMerge == InitMerge /\ [][NextMerge]_vars

\* The count of a field number in a map of unknown fields
CountOf(map, k) == IF k \in DOMAIN map THEN map[k] ELSE 0

\* Whether every counter of sum is the sum of those of a and b
IsSumOf(sum, a, b) ==
    /\ sum.total_packets = a.total_packets + b.total_packets
    /\ sum.packets_with_control = a.packets_with_control + b.packets_with_control
    /\ sum.packets_with_frames = a.packets_with_frames + b.packets_with_frames
    /\ sum.total_frames = a.total_frames + b.total_frames
    /\ \A c \in DOMAIN sum.control :
        sum.control[c] = a.control[c] + b.control[c]
    /\ \A f \in DOMAIN sum.frames :
        sum.frames[f] = a.frames[f] + b.frames[f]
    /\ DOMAIN sum.unknown_fields
            = DOMAIN a.unknown_fields \cup DOMAIN b.unknown_fields
    /\ \A k \in DOMAIN sum.unknown_fields :
        sum.unknown_fields[k]
            = CountOf(a.unknown_fields, k) + CountOf(b.unknown_fields, k)

\* C20: the statistics of the analyzer of A after the merge of the analyzer
\* of B are those of one analyzer that processed A followed by B; every
\* counter is the sum of the two; and merging A into B gives the same.
C20_MergeIsConcatenation ==
    merge_phase = "merged" =>
        /\ merged.ab = analyzer_single
        /\ IsSumOf(merged.ab, analyzer_a, analyzer_b)
        /\ merged.ba = merged.ab

\* Two analyzers that both counted unknown field 5, only one of which
\* counted unknown field 20, have been merged.
C20_Witness ==
    /\ merge_phase = "merged"
    /\ analyzer_a.total_packets = MaxBatch
    /\ analyzer_b.total_packets = MaxBatch
    /\ CountOf(analyzer_a.unknown_fields, 5) = 1
    /\ CountOf(analyzer_a.unknown_fields, 20) = 0
    /\ CountOf(analyzer_b.unknown_fields, 20) = 1
    /\ CountOf(merged.ab.unknown_fields, 5) >= 2
    /\ merged.ab.frames.total > 0
    /\ merged.ab.control.total > 0

-----------------------------------------------------------------------------
(* The capture client: phases, requests, shutdown and reconnection, under   *)
(* SpecClient.                                                              *)

\* The requests written on the connection are Authenticate, Join, then
\* KeepAlives, with none missing in between
RequestsInOrder ==
    \A i \in 1..Len(sent) :
        sent[i] = CASE i = 1 -> "AuthenticateRequest"
                    [] i = 2 -> "JoinRequest"
                    [] OTHER -> "KeepAliveRequest"

\* What the phase says of the requests written and of the messages spliced
PhaseMatchesRequests ==
    /\ RequestsInOrder
    /\ client_state = "Auth" => sent = <<>> \/ stream = "none"
    /\ (stream = "open" /\ client_state = "Join") =>
            sent = <<"AuthenticateRequest">>
    /\ (stream = "open" /\ client_state = "ReceivingData") => Len(sent) >= 2
    /\ (stream = "open" /\ (receive_buffer # <<>> \/ spliced # <<>>)) =>
            sent # <<>>
    /\ (stream = "open" /\ Len(sent) >= 2) => spliced # <<>>
    /\ (stream = "open" /\ spliced # <<>> /\ main_pc = "loop") => Len(sent) >= 2
    /\ keepalive_handle \in {"waiting", "sending"} => Len(sent) >= 2

\* A change of phase is Join to ReceivingData with the JoinRequest written as
\* the first message is spliced out, or the reset of a new connect
PhaseStep ==
    client_state' # client_state =>
        \/ /\ client_state = "Join" /\ client_state' = "ReceivingData"
           /\ stream = "open" /\ stream' = "open"
           /\ spliced = <<>> /\ spliced' # <<>>
           /\ sent' = Append(sent, "JoinRequest")
           /\ keepalive_handle = "none" /\ keepalive_handle' = "waiting"
        \/ /\ stream = "none" /\ stream' = "open"
           /\ client_state' \in {"Auth", "Join"}

\* C21: on every connection the phase goes Auth, Join, ReceivingData without
\* a skip or a step back, and is back at Auth only by the reset of a connect;
\* one AuthenticateRequest is written, before anything is read; one
\* JoinRequest is written, when the first complete message is spliced out;
\* the worker is started with that JoinRequest; so the requests written are
\* Authenticate, Join, then KeepAlives.
C21_PhasesAndRequestsInOrder == [](PhaseMatchesRequests) /\ [][PhaseStep]_vars

\* A connection in ReceivingData on which the worker has written a KeepAlive
\* after the JoinRequest
C21_Witness ==
    /\ stream = "open"
    /\ client_state = "ReceivingData"
    /\ sent = <<"AuthenticateRequest", "JoinRequest", "KeepAliveRequest">>
    /\ Len(spliced) = 2

\* C22: once Client::run has returned success, the persisted buffer and the
\* bytes left in the receive buffer have been written to a file, the socket
\* has been shut down and the worker has been joined.
C22_ReturnedAfterFlushShutdownJoin ==
    returned = "ok" =>
        /\ saved_buffer = <<>>
        /\ receive_buffer = <<>>
        /\ stream = "none"
        /\ keepalive_handle = "none"

\* Whether the worker thread is alive
WorkerAlive == keepalive_handle \in {"waiting", "sending"}

\* The steps of a disconnect and of the worker, in their order
DisconnectStep ==
    /\ (flushed' # flushed /\ main_pc = "joining") => ~WorkerAlive
    /\ (stream = "open" /\ stream' = "none") =>
            /\ ~WorkerAlive
            /\ main_pc = "joining"
            /\ saved_buffer' = <<>> /\ receive_buffer' = <<>>
            /\ flushed' = flushed \o saved_buffer \o receive_buffer
    /\ sent' = Append(sent, "KeepAliveRequest") => stream = "open"
    /\ (client_state' # client_state /\ keepalive_handle' = "waiting") =>
            keepalive_handle = "none"

\* C23: in every disconnect the worker has terminated before the forced
\* flush starts and everything is flushed when the socket is shut down; the
\* worker is alive, and sends KeepAlives, only on a socket that is not shut
\* down; and a worker is started only when none exists.
C23_WorkerFlushShutdownInOrder ==
    [](WorkerAlive => stream = "open") /\ [][DisconnectStep]_vars

\* A connection whose worker had taken the socket has been disconnected
\* while the loop goes on: the worker is joined, the bytes are in a file and
\* the socket is shut down.
C23_Witness ==
    /\ stream = "none"
    /\ main_pc = "loop"
    /\ running_signal
    /\ keepalive_handle = "none"
    /\ "KeepAliveRequest" \in {sent[i] : i \in 1..Len(sent)}
    /\ flushed # <<>>
    /\ DOMAIN files # {}

\* C24: a worker that is sending keepalives leaves that loop only by
\* terminating; in particular, when the send of a KeepAliveRequest fails, it
\* terminates and does not go back to waiting for a socket.
C24_SendFailureEndsWorker ==
    [][(keepalive_handle = "sending" /\ keepalive_handle' # "sending")
            => keepalive_handle' = "exited"]_vars

-----------------------------------------------------------------------------
(* SpecClientLive: the capture client with both threads scheduled fairly:   *)
(* the main thread goes on with the turn of the loop, the disconnect or the *)
(* join it is at, and the worker goes on with its loop, which tests the two *)
(* flags at every turn (client.rs 385-390, 396-403) between sleeps of       *)
(* 100 ms.                                                                  *)

MainThread ==
    \/ \E connect_ok, send_ok \in BOOLEAN : RunConnect(connect_ok, send_ok)
    \/ \E n \in 1..ReadSize, join_ok \in BOOLEAN : RunRead(n, join_ok)
    \/ RunReadNothing
    \/ RunReadError
    \/ RunExit
    \/ RunFatal
    \/ StopKeepalive
    \/ FinishDisconnect

SpecClientLive ==
    /\ InitClient
    /\ [][NextClient]_vars
    /\ WF_vars(MainThread)
    /\ WF_vars(KeepaliveExit)

\* C25: once the running flag is false, Client::run returns and the worker
\* exits; once the enabled flag is cleared, the worker exits and the join of
\* stop_keepalive_thread returns: the worker, waiting for a socket or
\* sending keepalives, never stays in its loop forever.
C25_BothThreadsStop ==
    /\ (~running_signal) ~> (returned # "no")
    /\ (~running_signal) ~> (~WorkerAlive)
    /\ (WorkerAlive /\ ~keepalive_enabled) ~> (~WorkerAlive)
    /\ (main_pc = "joining") ~> (main_pc # "joining")

\* The shutdown signal came while the worker was sending keepalives; run
\* has returned and the worker has been joined.
C25_Witness ==
    /\ ~running_signal
    /\ returned = "ok"
    /\ main_pc = "done"
    /\ keepalive_handle = "none"
    /\ "KeepAliveRequest" \in {sent[i] : i \in 1..Len(sent)}

\* A connect attempt that fails leaves the client without a socket and in
\* the loop (client.rs 339-342).
FailedConnectStep ==
    /\ main_pc = "loop" /\ stream = "none"
    /\ main_pc' = "loop" /\ stream' = "none"

\* C26: the reconnect attempt counter is incremented only by a failed
\* connect: every step that changes reconnect_attempts is a connect attempt
\* that failed, and adds exactly one.
C26_CounterCountsFailedConnects ==
    [][reconnect_attempts' # reconnect_attempts =>
         /\ FailedConnectStep
         /\ reconnect_attempts' = reconnect_attempts + 1]_vars

\* The bytes a connection has persisted so far: those flushed to its files
\* followed by those still in the persisted buffer.
Persisted == flushed \o saved_buffer

\* What the spliced messages of the connection amount to once each is
\* followed by its trailer (client.rs 260-267).
SplicedWithTrailers ==
    Flatten([i \in 1..Len(spliced) |->
                spliced[i].message \o Trailer(spliced[i].at)])

\* C27: every complete message removed from the receive buffer is in the
\* persisted bytes with its trailer, the first message of a connection whose
\* JoinRequest could not be sent included: at every moment, also after the
\* disconnect, the persisted bytes start with the spliced messages and their
\* trailers.
C27_EverySplicedMessagePersisted ==
    /\ Len(Persisted) >= Len(SplicedWithTrailers)
    /\ SubSeq(Persisted, 1, Len(SplicedWithTrailers)) = SplicedWithTrailers

\* The file paths written by a step that flushes: save_raw_data writes
\* {data_prefix}{data_index}.bin and then increments the index (client.rs
\* 284-296).
PathsWritten == {<<data_prefix, i>> : i \in data_index..(data_index' - 1)}

\* C28: within one run no flush writes to a file path that an earlier flush
\* of the run already wrote, also after a disconnect and reconnect: every
\* path a step writes is new.
C28_NoFlushReusesPath ==
    [][data_index' > data_index =>
         \A path \in PathsWritten : path \notin DOMAIN files]_vars

-----------------------------------------------------------------------------
(* A file of the capture client read by MixedPacketReader: the bytes that   *)
(* process_receive_buffer hands to save_raw_data (client.rs 242-268) given  *)
(* to read_packet (reader.rs 211-267).                                      *)

\* Server messages the reader accepts: a length prefix, a type byte and a
\* payload that decodes as a DataPack
CapturedPayloads == {<<16, 1>>, <<16, 1, 120, 0>>, <<80, 1>>, <<120, 1>>}
CapturedMessages ==
    {to_be_bytes_u16(Len(payload) + 1) \o <<1>> \o payload :
        payload \in CapturedPayloads}

\* A spliced message and its reception time, as in `spliced`
Splices == [message : CapturedMessages, at : 0..MaxTime]
SpliceLists == UNION {[1..n -> Splices] : n \in 0..MaxPairs}

\* The bytes the client persists for spliced messages: each message followed
\* by its trailer (client.rs 260-267)
CaptureOf(splices) ==
    Flatten([i \in 1..Len(splices) |->
                splices[i].message \o Trailer(splices[i].at)])

\* The payload and the timestamp bytes of a spliced message
PairOfSplice(splice) ==
    [payload |-> SubSeq(splice.message, 4, Len(splice.message)),
     micros |-> to_be_bytes(splice.at * Second)]

InitReplay ==
    /\ ConvInit(FALSE, NoTime, NoTime, NoTime, FALSE, 0)
    /\ CodecIdle
    /\ ClientIdle
    /\ \E splices \in SpliceLists :
          /\ mixed_source = [pairs |-> [i \in 1..Len(splices) |->
                                           PairOfSplice(splices[i])],
                             cut |-> Len(CaptureOf(splices)),
                             splices |-> splices]
          /\ mixed_file = CaptureOf(splices)
    /\ mixed_state = "ExpectProtobuf"
    /\ pending_protobuf = <<>>
    /\ mixed_yielded = <<>>
    /\ mixed_last = "start"
    /\ PacketIdle
    /\ EditorIdle
    /\ MoreIdle

NextReplay == MixedReadPacket

SpecReplay == InitReplay /\ [][NextReplay]_vars

\* The splices whose bytes are still to be read after the packets yielded
SplicesLeft ==
    SubSeq(mixed_source.splices, Len(mixed_yielded) + 1, Len(mixed_source.splices))

\* C29: a file flushed by the client after splicing m1..mn is read as exactly
\* n packets, the i-th with the payload of mi and the timestamp of its
\* trailer, and for each timestamp record the reader consumes exactly the
\* bytes the client wrote for it: after each packet the bytes left are those
\* of the messages not read yet, and reading ends with end-of-stream after
\* the n-th.
C29_CaptureReadsBack ==
    /\ Len(mixed_yielded) <= Len(mixed_source.pairs)
    /\ YieldedArePairs(Len(mixed_yielded))
    /\ mixed_last = "packet" => mixed_file = CaptureOf(SplicesLeft)
    /\ ReadingEnded =>
          mixed_last = "none" /\ Len(mixed_yielded) = Len(mixed_source.pairs)

-----------------------------------------------------------------------------
(* SpecRollover: the converter on captured timestamps around the end of a   *)
(* 10 s segment, with frames below and above the byte budget, Pong packets  *)
(* and data_start_time.                                                     *)

RolloverTemplates ==
    {JoinPacket,
     Template(Data(1), <<Inst(1, "Stage/Prop", SmallLen)>>),
     Template(Data(1), <<Inst(1, "Stage/Prop", BigLen)>>),
     Template(Data(1), <<Upd(1, 7, SmallLen)>>),
     Template(Pong(1), <<>>)}

\* The time between two packets: inside the segment, exactly at its 10 s,
\* and past it.
RolloverSteps == {1 * Second, 10 * Second, 11 * Second}

InitRollover ==
    /\ \E dst \in {NoTime, SkipUntil} :
            ConvInit(FALSE, NoTime, dst, NoTime, FALSE, 0)
    /\ CodecIdle
    /\ ClientIdle
    /\ ToolIdle

NextRollover ==
    \/ \E packet_info \in Stamped(RolloverTemplates, RolloverSteps) :
            ProcessPacket(packet_info)
    \/ Finalize

SpecRollover == InitRollover /\ [][NextRollover]_vars

\* A packet reaches the rollover test of process_update_objects_state
\* (converter.rs 684-706, 745-746): the phase is UpdateObjects or Pong, its
\* control is absent or Data(true), and no data_start_time is pending.
ReachesRolloverTest ==
    /\ nprocessed' = nprocessed + 1
    /\ ~auto_timestamp
    /\ state \in {"UpdateObjects", "Pong"}
    /\ data_end_time = NoTime \/ ~(last_packet'.timestamp > data_end_time)
    /\ last_packet'.control \in {NoControl, Data(1)}
    /\ data_start_time = NoTime

\* The segment opened by the step and the one it closed
OpenedSegment == segments'[Len(segments')]
ClosedSegment == segments'[Len(segments)]

\* The header of the opened segment, and the triggering packet after it
RolloverHeaderAsStated ==
    /\ Len(OpenedSegment.packets) >= 4
    /\ OpenedSegment.packets[1].control = SegmentStartedAt(initial_timestamp')
    /\ OpenedSegment.packets[1].frames = <<>>
    /\ OpenedSegment.packets[2].control = Data(1)
    /\ OpenedSegment.packets[2].frames = <<RoomFrame(data_room)>>
    /\ OpenedSegment.packets[3].control = Data(1)
    /\ OpenedSegment.packets[3].frames = initial_dataframes
    /\ OpenedSegment.packets[4].control = CacheEnded(1)
    /\ OpenedSegment.packets[4].frames = <<>>
    /\ (Retained(last_packet'.frames) # <<>> /\ state' # "Split") =>
          /\ Len(OpenedSegment.packets) > 4
          /\ \A i \in 5..Len(OpenedSegment.packets) :
                /\ OpenedSegment.packets[i].timestamp
                      = last_packet'.timestamp + timeshift
                /\ OpenedSegment.packets[i].control = last_packet'.control

RolloverAsStated ==
    /\ initial_timestamp' = initial_timestamp + DURATION
    /\ Len(segments') = Len(segments) + 1
    /\ ClosedSegment.duration = DURATION
    /\ OpenedSegment.number = ClosedSegment.number + 1
    /\ RolloverHeaderAsStated

\* C30: in non-auto mode a packet that reaches the rollover test with a
\* timestamp more than 10 s after initial_timestamp advances
\* initial_timestamp by exactly 10 s, sets the current segment's duration to
\* 10 s and opens the next-numbered segment, whose packets are
\* SegmentStartedAt(new initial_timestamp), the Room packet, a Data(true)
\* packet with the initial-dataframes list as it was before the packet, and
\* CacheEnded, followed by the triggering packet; a packet at exactly 10 s or
\* less opens no segment and leaves initial_timestamp alone.
C30_RolloverOpensSegmentWithHeader ==
    [][ReachesRolloverTest =>
         IF last_packet'.timestamp - initial_timestamp > DURATION
         THEN RolloverAsStated
         ELSE /\ initial_timestamp' = initial_timestamp
              /\ Len(segments') = Len(segments)]_vars

-----------------------------------------------------------------------------
(* SpecFirst: the converter up to and around the first admitted packet,     *)
(* with and without start_time and auto-timestamp.                          *)

\* start_time when it is given
StartAt == 3 * Second

FirstTemplates ==
    {JoinPacket,
     Template(Data(1), <<Inst(1, "Stage/Prop", SmallLen)>>),
     Template(Data(1), <<Inst(1, "Stage/Prop", BigLen)>>),
     Template(Data(1), <<Upd(1, 7, SmallLen), Inst(1, "Stage/Prop", SmallLen)>>),
     Template(NoControl, <<Inst(1, "Stage/Prop", SmallLen)>>),
     Template(Data(0), <<Inst(1, "Stage/Prop", SmallLen)>>)}

FirstSteps == {1 * Second, 2 * Second}

InitFirst ==
    /\ \E st \in {NoTime, StartAt} : \E auto \in BOOLEAN :
            ConvInit(FALSE, st, NoTime, NoTime, auto, 0)
    /\ CodecIdle
    /\ ClientIdle
    /\ ToolIdle

NextFirst ==
    \/ \E packet_info \in Stamped(FirstTemplates, FirstSteps) :
            ProcessPacket(packet_info)
    \/ Finalize

SpecFirst == InitFirst /\ [][NextFirst]_vars

\* A packet is handed to process_first_dataframes_state (converter.rs
\* 526-550)
ReachesFirstDataframes ==
    /\ nprocessed' = nprocessed + 1
    /\ state = "FirstDataframes"
    /\ data_end_time = NoTime \/ ~(last_packet'.timestamp > data_end_time)

\* The three tests of process_first_dataframes_state (converter.rs 606-628)
AdmittedAsFirst(packet_info) ==
    /\ packet_info.control = Data(1)
    /\ packet_info.frames # <<>>
    /\ IsInstantiate(Head(packet_info.frames))
    /\ start_time = NoTime \/ start_time <= packet_info.timestamp

\* The part a first admitted packet opens, as stated
FirstPartAsStated(packet_info) ==
    /\ Len(segments') = 1
    /\ segments'[1].packets =
          <<create_segment_started_packet(packet_info.timestamp),
            create_room_frame(packet_info.timestamp, data_room),
            create_cache_end(packet_info.timestamp),
            [packet_info EXCEPT !.frames = RewriteFirst(@)]>>

\* C31: in FirstDataframes a packet is admitted exactly when its control is
\* Data(true), its first frame is an InstantiateObject and start_time is
\* unset or not later than its timestamp; a rejected packet leaves the
\* phase, initial_timestamp, the initial-dataframes list and the builder
\* unchanged; an admitted one clears start_time, moves to UpdateObjects and,
\* in non-auto mode, opens the part with SegmentStartedAt, Room, CacheEnded
\* and the rewritten packet, in that order.
C31_FirstPacketAdmission ==
    [][ReachesFirstDataframes =>
         IF AdmittedAsFirst(last_packet')
         THEN /\ state' = "UpdateObjects"
              /\ start_time' = NoTime
              /\ initial_timestamp' = last_packet'.timestamp
              /\ ~auto_timestamp => FirstPartAsStated(last_packet')
         ELSE UNCHANGED <<state, initial_timestamp, initial_dataframes,
                          segments, current_sequence, part_count>>]_vars

-----------------------------------------------------------------------------
(* SpecObjects: the converter given packets of several frames for the same  *)
(* object, in the first admitted packet and after it.                       *)

ObjectTemplates ==
    {JoinPacket,
     Template(Data(1), <<Inst(1, "Stage/Prop", SmallLen)>>),
     Template(Data(1), <<Inst(1, "Stage/Prop", SmallLen), Upd(1, 7, SmallLen),
                         Upd(1, 8, SmallLen)>>),
     Template(Data(1), <<Inst(2, "Stage/Prop", SmallLen), Upd(2, 7, SmallLen)>>),
     Template(Data(1), <<Upd(1, 7, SmallLen)>>),
     Template(Data(1), <<Upd(1, 8, SmallLen)>>),
     Template(Data(1), <<Upd(2, 8, SmallLen)>>),
     Template(Data(1), <<Destroy(1)>>)}

ObjectSteps == {1 * Second}

InitObjects ==
    /\ ConvInit(FALSE, NoTime, NoTime, NoTime, FALSE, 0)
    /\ CodecIdle
    /\ ClientIdle
    /\ ToolIdle

NextObjects ==
    \/ \E packet_info \in Stamped(ObjectTemplates, ObjectSteps) :
            ProcessPacket(packet_info)
    \/ Finalize

SpecObjects == InitObjects /\ [][NextObjects]_vars

\* The positions of the UpdateObject entries of an object in a list
UpdatesOf(dataframes, object_id) ==
    {i \in 1..Len(dataframes) :
        IsUpdate(dataframes[i]) /\ dataframes[i].object_id = object_id}

AtMostOneUpdatePerObject ==
    \A object_id \in ObjectIds :
        Cardinality(UpdatesOf(initial_dataframes, object_id)) <= 1

\* A step that processes a packet of one frame in UpdateObjects or Pong
OneFrameStep ==
    /\ nprocessed' = nprocessed + 1
    /\ state \in {"UpdateObjects", "Pong"}
    /\ last_packet'.control \in {NoControl, Data(1)}
    /\ Len(last_packet'.frames) = 1

\* A later update takes the place of the earlier one, with the later payload
\* and target CurrentPlayer (converter.rs 875-907)
UpdateReplacesInPlace ==
    (/\ OneFrameStep
     /\ IsUpdate(last_packet'.frames[1])
     /\ UpdatesOf(initial_dataframes, last_packet'.frames[1].object_id) # {})
        => \E i \in UpdatesOf(initial_dataframes, last_packet'.frames[1].object_id) :
              initial_dataframes' =
                  [initial_dataframes EXCEPT
                      ![i] = [last_packet'.frames[1] EXCEPT
                                 !.target = "CurrentPlayer"]]

\* Right after a DestroyObject no entry of the object is left (converter.rs
\* 824-844)
DestroyRemovesObject ==
    (/\ OneFrameStep
     /\ IsDestroy(last_packet'.frames[1]))
        => \A i \in 1..Len(initial_dataframes') :
              (IsInstantiate(initial_dataframes'[i]) \/ IsUpdate(initial_dataframes'[i]))
                  => initial_dataframes'[i].object_id
                        # last_packet'.frames[1].object_id

\* C32: after any sequence of processed packets the initial-dataframes list
\* holds at most one UpdateObject entry per object_id, a later update taking
\* the list position of the earlier one with the later payload and target
\* CurrentPlayer; and right after a DestroyObject the list holds neither an
\* InstantiateObject nor an UpdateObject entry of that object_id.
C32_OneUpdatePerObject ==
    /\ []AtMostOneUpdatePerObject
    /\ [][UpdateReplacesInPlace /\ DestroyRemovesObject]_vars

-----------------------------------------------------------------------------
(* SpecEnd: the converter with data_end_time, reached in every phase.       *)

\* data_end_time when it is given
EndAt == 4 * Second

EndTemplates ==
    {JoinPacket,
     Template(Data(1), <<Inst(1, "Stage/Prop", SmallLen)>>),
     Template(Data(1), <<Upd(1, 7, SmallLen)>>),
     Template(Data(1), <<Destroy(1)>>),
     Template(Pong(1), <<>>)}

EndSteps == {1 * Second, 2 * Second}

InitEnd ==
    /\ \E split \in BOOLEAN : ConvInit(split, NoTime, NoTime, EndAt, FALSE, 0)
    /\ CodecIdle
    /\ ClientIdle
    /\ ToolIdle

NextEnd ==
    \/ \E packet_info \in Stamped(EndTemplates, EndSteps) : ProcessPacket(packet_info)
    \/ Finalize

SpecEnd == InitEnd /\ [][NextEnd]_vars

\* A step of process_all_packets on a packet with data_end_time set
EndTimeStep == nprocessed' = nprocessed + 1 /\ data_end_time # NoTime

\* A packet later than data_end_time only moves the converter to End
LatePacketEnds ==
    (EndTimeStep /\ last_packet'.timestamp > data_end_time)
        => /\ state' = "End"
           /\ UNCHANGED <<data_room, initial_dataframes, segments,
                          current_sequence, part_count, packetinfo_buffer>>

\* A packet stamped exactly data_end_time is processed as any other
PacketAtEndTimeProcessed ==
    (EndTimeStep /\ last_packet'.timestamp = data_end_time)
        => /\ state' # "End"
           /\ state = "Initial" /\ last_packet'.frames # <<>>
                 /\ Head(last_packet'.frames).kind = "JoinRoomResponse"
                 => state' = "FirstDataframes"
           /\ state = "FirstDataframes" /\ AdmittedAsFirst(last_packet')
                 => state' = "UpdateObjects" /\ Len(segments') = 1
           /\ state = "Split" => state' = "FirstDataframes"

\* No packet of a segment was read after data_end_time
NoLatePacketInSegments ==
    data_end_time # NoTime =>
        \A k \in 1..Len(segments) : \A i \in 1..Len(segments[k].packets) :
            segments[k].packets[i].timestamp - timeshift <= data_end_time

\* C33: in every phase a packet strictly later than data_end_time moves the
\* converter to End without changing the room, the initial-dataframes list
\* or the builder; a packet stamped exactly data_end_time is processed
\* normally; End is absorbing, no packet is processed after it, and no input
\* packet later than data_end_time reaches a segment.
C33_EndTimeStopsProcessing ==
    /\ [][LatePacketEnds /\ PacketAtEndTimeProcessed]_vars
    /\ [][state = "End" => state' = "End" /\ nprocessed' = nprocessed]_vars
    /\ []NoLatePacketInSegments

\* The converter ended on a late packet after a packet stamped exactly
\* data_end_time was admitted to a segment
C33_Witness ==
    /\ state = "End"
    /\ last_packet.timestamp > data_end_time
    /\ \E k \in 1..Len(segments) : \E i \in 1..Len(segments[k].packets) :
          /\ segments[k].packets[i].timestamp = data_end_time
          /\ segments[k].packets[i].frames # <<>>
          /\ IsUpdate(segments[k].packets[i].frames[1])

-----------------------------------------------------------------------------
(* SpecSplit: the converter in split mode over an input long enough for two *)
(* parts, with and without data_start_time.                                 *)

\* How many packets the input of SpecSplit holds at most
MaxSplitPackets == 5

SplitTemplates ==
    {JoinPacket,
     Template(Data(1), <<Inst(1, "Stage/Prop", SmallLen)>>),
     Template(Data(1), <<Upd(1, 7, SmallLen)>>),
     Template(Data(1), <<Destroy(1)>>)}

SplitSteps == {1 * Second}

InitSplit ==
    /\ \E dst \in {NoTime, SkipUntil} :
            ConvInit(TRUE, NoTime, dst, NoTime, FALSE, 0)
    /\ CodecIdle
    /\ ClientIdle
    /\ ToolIdle

NextSplit ==
    \/ \E packet_info \in Stamped(SplitTemplates, SplitSteps) :
            ProcessUpTo(MaxSplitPackets, packet_info)
    \/ Finalize

SpecSplit == InitSplit /\ [][NextSplit]_vars

\* format!("{:03}", n) (converter.rs 328-332): at least three decimal digits
RECURSIVE Decimal(_)
Decimal(n) == IF n < 10 THEN <<n>> ELSE Append(Decimal(n \div 10), n % 10)
ThreeDigits(n) ==
    [i \in 1..(3 - Min(3, Len(Decimal(n)))) |-> 0] \o Decimal(n)

\* The directory write_to_file writes a part to (converter.rs 327-336), as
\* the suffix added to the base name
OutputDirSuffix(count) ==
    IF count > 1 THEN <<"_">> \o ThreeDigits(count - 1) ELSE <<>>

\* A packet with frames is processed in UpdateObjects or Pong in split mode
\* and leaves the initial-dataframes list empty
EmptiesList ==
    /\ nprocessed' = nprocessed + 1
    /\ split_write_mode /\ ~auto_timestamp
    /\ state \in {"UpdateObjects", "Pong"}
    /\ last_packet'.control \in {NoControl, Data(1)}
    /\ last_packet'.frames # <<>>
    /\ initial_dataframes' = <<>>

\* The packet is not one skipped by data_start_time, and the retain leaves
\* it a frame (converter.rs 774-785, 849-851)
NotSkipped ==
    /\ data_start_time = NoTime \/ ~(last_packet'.timestamp < data_start_time)
    /\ Retained(last_packet'.frames) # <<>>

\* The packet after Split writes the current part once and re-enters
\* FirstDataframes (converter.rs 551-566)
SplitWritesPart ==
    (nprocessed' = nprocessed + 1 /\ state = "Split")
        => /\ state' = "FirstDataframes"
           /\ Len(written') = Len(written) + 1
           /\ written'[Len(written')].part_count = part_count
           /\ Len(written'[Len(written')].segments) = Len(segments)
           /\ \A k \in 1..Len(segments) :
                 written'[Len(written')].segments[k].packets = segments[k].packets

\* Parts and directories: different parts go to different directories, the
\* first to the base directory, and segments are numbered from 0
PartsInOwnDirectories ==
    \A i \in 1..Len(written) :
        /\ OutputDirSuffix(written[i].part_count)
              = IF written[i].part_count = 1 THEN <<>>
                ELSE <<"_">> \o ThreeDigits(written[i].part_count - 1)
        /\ \A k \in 1..Len(written[i].segments) :
              written[i].segments[k].number = k - 1
        /\ \A j \in 1..Len(written) :
              OutputDirSuffix(written[i].part_count)
                    = OutputDirSuffix(written[j].part_count)
                 => \A k \in 1..Len(written[i].segments) :
                       /\ k <= Len(written[j].segments)
                       /\ written[i].segments[k].packets
                             = written[j].segments[k].packets

\* C34 as stated: with split enabled in non-auto mode, whenever a processed
\* packet with frames leaves the initial-dataframes list empty the phase
\* becomes Split; the next packet writes the current part once and the phase
\* becomes FirstDataframes; parts go to the base directory and to the base
\* name suffixed _001, _002, ..., no two different parts to the same
\* directory, each numbered from segment 0.
C34_SplitWritesParts ==
    /\ [][EmptiesList => state' = "Split"]_vars
    /\ [][SplitWritesPart]_vars
    /\ []PartsInOwnDirectories

\* C34, amended: the same, for a packet that is not skipped by
\* data_start_time and holds an InstantiateObject, UpdateObject or
\* DestroyObject frame.
C34_SplitWritesPartsUnlessSkipped ==
    /\ [][(EmptiesList /\ NotSkipped) => state' = "Split"]_vars
    /\ [][SplitWritesPart]_vars
    /\ []PartsInOwnDirectories

\* Two parts have been written, the second after a Split
C34_Witness ==
    /\ Len(written) = 2
    /\ written[1].part_count = 1
    /\ written[2].part_count = 2
    /\ written[1].segments # written[2].segments

\* The SegmentStartedAt value a segment opens with
StartedAt(segment) == segment.packets[1].control.value

\* The input data packets admitted to a segment: those after its header
AdmittedTo(segment) ==
    {i \in 1..Len(segment.packets) : i > CacheEndIndex(segment)}

\* C35: in non-auto mode every input data packet admitted to a segment has a
\* timestamp no later than 10 s after the segment's SegmentStartedAt value,
\* and the SegmentStartedAt values of consecutive segments of a part differ
\* by exactly 10 s, whatever the gaps between input timestamps.
C35_SegmentsSpanTenSeconds ==
    ~auto_timestamp =>
        /\ \A k \in 1..Len(segments) : \A i \in AdmittedTo(segments[k]) :
              segments[k].packets[i].timestamp - timeshift
                  <= StartedAt(segments[k]) + DURATION
        /\ \A k \in 1..(Len(segments) - 1) :
              StartedAt(segments[k + 1]) = StartedAt(segments[k]) + DURATION

-----------------------------------------------------------------------------
(* SpecShift: the converter with a timeshift, the value of --timeshift      *)
(* (args.rs 164-170) as convert_mixed_to_standard hands it to               *)
(* SegmentBuilder::new (converter.rs 108-119, 476).                         *)

\* The values of --timeshift tried: none, one second forwards and backwards
\* in milliseconds
Timeshifts == {0, 1000, 0 - 1000}

ShiftTemplates ==
    {JoinPacket,
     Template(Data(1), <<Inst(1, "Stage/Prop", SmallLen)>>),
     Template(Data(1), <<Upd(1, 7, SmallLen)>>),
     Template(Data(1), <<Upd(1, 8, SmallLen)>>)}

ShiftSteps == {1 * Second, 11 * Second}

InitShift ==
    /\ \E shift \in Timeshifts : ConvInit(FALSE, NoTime, NoTime, NoTime, FALSE, shift)
    /\ CodecIdle
    /\ ClientIdle
    /\ ToolIdle

NextShift ==
    \/ \E packet_info \in Stamped(ShiftTemplates, ShiftSteps) : ProcessPacket(packet_info)
    \/ Finalize

SpecShift == InitShift /\ [][NextShift]_vars

\* The last packet read was admitted through add as the last packet of the
\* last segment
LastPacketAdmitted ==
    /\ state \in {"UpdateObjects", "Pong"}
    /\ segments # <<>>
    /\ last_packet.control = Data(1)
    /\ Retained(last_packet.frames) # <<>>

\* C36: every packet admitted through SegmentBuilder::add is stored with its
\* incoming timestamp plus the timeshift taken in milliseconds: a timeshift
\* of 1000 moves the packet by one second.
C36_TimeshiftInMilliseconds ==
    LastPacketAdmitted =>
        Last(Last(segments).packets).timestamp
            = last_packet.timestamp + timeshift * 1000

-----------------------------------------------------------------------------
(* SpecAnchor: the converter in auto-timestamp mode given updates of        *)
(* object_id 0, the value datetime_receiver_id starts with (converter.rs    *)
(* 1113), before and after a DateTimeReceiver is instantiated.              *)

AnchorTemplates ==
    {JoinPacket,
     Template(Data(1), <<Inst(3, "VoiceObject/MusicBroadcaster", SmallLen)>>),
     Template(Data(1), <<Inst(1, "TimedAsset/DateTimeReceiver", SmallLen)>>),
     Template(Data(1), <<Upd(0, 0 - 1, SmallLen)>>),
     Template(Data(1), <<Upd(0, 5 * Second, SmallLen)>>),
     Template(Data(1), <<Upd(1, 1 * Second, SmallLen)>>)}

AnchorSteps == {20 * Second}

InitAnchor ==
    /\ ConvInit(FALSE, NoTime, NoTime, NoTime, TRUE, 0)
    /\ CodecIdle
    /\ ClientIdle
    /\ ToolIdle

NextAnchor ==
    \/ \E packet_info \in Stamped(AnchorTemplates, AnchorSteps) :
            ProcessPacket(packet_info)
    \/ Finalize

SpecAnchor == InitAnchor /\ [][NextAnchor]_vars

\* No DateTimeReceiver is instantiated anywhere in the buffer
NoReceiverIn(buffer) ==
    \A i \in 1..Len(buffer) : \A j \in 1..Len(buffer[i].frames) :
        ~(/\ IsInstantiate(buffer[i].frames[j])
          /\ Contains(buffer[i].frames[j].prefab_name, "TimedAsset/DateTimeReceiver"))

\* What the first pass makes of the buffered packets
FirstPass == ScanPackets(ScanStart, packetinfo_buffer, 1)

\* C37: in the first auto-timestamp pass an UpdateObject is an anchor only if
\* its object_id is that of a DateTimeReceiver instantiated earlier in the
\* buffer: while the buffer holds no DateTimeReceiver, no update (none with
\* object_id 0 in particular) is parsed, becomes an anchor or creates a
\* range, and the conversion is never aborted by a payload error.
C37_AnchorsNeedReceiver ==
    (auto_timestamp /\ NoReceiverIn(packetinfo_buffer)) =>
        /\ FirstPass.ok
        /\ FirstPass.last_confirmed_timestamp = NoTime
        /\ FirstPass.ranges_to_process = <<>>
        /\ outcome # "error: auto timestamp"

-----------------------------------------------------------------------------
(* The builder's write and what it finds in the builder                     *)
(* (converter.rs 178-200, 321-346, 552-566, 1102-1105).                     *)

\* Every part handed to write_to_file has a segment, and no segment of it is
\* empty.
WrittenPartsHavePackets ==
    \A w \in 1..Len(written) :
        /\ written[w].segments # <<>>
        /\ \A k \in 1..Len(written[w].segments) :
                written[w].segments[k].packets # <<>>

\* C38: whenever the builder's write is reached (input exhausted, End or
\* Split) the builder holds at least one segment and every segment holds at
\* least one packet, so the write never fails on an empty segment list or an
\* empty segment; also when the input produced no JoinRoomResponse or no
\* admitted first packet, and in auto-timestamp mode with an empty buffer.
C38_WriteFindsPackets ==
    /\ outcome # "panic: unwrap on None in write_to_file"
    /\ WrittenPartsHavePackets

-----------------------------------------------------------------------------
(* The cached-state window of the editor and the round-robin over the       *)
(* target timeline IDs (editor.rs 111-123, 152-216).                        *)

\* The packet the loop of Editor::process reads next
EditedPacket == read_packet(ed_input[ed_cursor.file][ed_cursor.record])

\* One turn of the loop on a packet whose one frame is an UpdateObject of a
\* known TimelineReceiver
TimelineUpdateRead ==
    /\ ed_cursor'.file = ed_cursor.file
    /\ ed_cursor'.record = ed_cursor.record + 1
    /\ Len(EditedPacket.frames) = 1
    /\ IsUpdate(EditedPacket.frames[1])
    /\ EditedPacket.frames[1].object_id \in timeline_receiver_objects

\* is_cached_state for the packet read (editor.rs 114-117, 164)
InCachedWindow == ed_cursor.file > 1 /\ ~SeenCacheEnded(EditedPacket)

\* The payload of the update in the record written for the packet read
EmittedPayload ==
    read_packet(Last(ed_output'[ed_cursor.file])).frames[1].payload

\* The update left with the cached payload of its object (editor.rs 166-172)
RestoredFromCache ==
    /\ EditedPacket.frames[1].object_id \in DOMAIN modified_states
    /\ EmittedPayload = modified_states[EditedPacket.frames[1].object_id]
    /\ current_timeline_index' = current_timeline_index
    /\ modified_states' = modified_states

\* The update given the next target ID (editor.rs 178-187)
GetsNextId ==
    /\ EmittedPayload.timeline_id = target_timeline_ids[current_timeline_index + 1]
    /\ current_timeline_index' =
            (current_timeline_index + 1) % Len(target_timeline_ids)
    /\ current_timeline_index' < Len(target_timeline_ids)

\* The update written as it was read (editor.rs 161)
PassedUnchanged ==
    /\ EmittedPayload = EditedPacket.frames[1].payload
    /\ current_timeline_index' = current_timeline_index
    /\ modified_states' = modified_states

\* C39: in every file after the first, each UpdateObject of a known
\* TimelineReceiver before that file's first CacheEnded is emitted with the
\* payload the editor last wrote for its object_id, and leaves the
\* round-robin index and the cached payloads alone; every other
\* TimelineReceiver update gets the next target ID in cyclic order, the index
\* staying below the length of the ID list.
C39_CachedWindowRestores ==
    [][TimelineUpdateRead =>
         IF InCachedWindow THEN RestoredFromCache
         ELSE target_timeline_ids # <<>> => GetsNextId]_vars

\* C39, amended: an update whose payload does not parse as a timeline command
\* is written as read; in every file after the first, a parsed update before
\* the file's first CacheEnded for whose object_id a payload is cached is
\* emitted with that payload, index and cache unchanged; every other parsed
\* update, the target ID list not being empty, gets the next ID in cyclic
\* order, the index staying below the length of the list.
C39_CachedWindowRestoresCached ==
    [][TimelineUpdateRead =>
         IF ~ParsesAsTimeline(EditedPacket.frames[1].payload) THEN PassedUnchanged
         ELSE IF /\ InCachedWindow
                 /\ EditedPacket.frames[1].object_id \in DOMAIN modified_states
         THEN RestoredFromCache
         ELSE target_timeline_ids # <<>> => GetsNextId]_vars

\* The second file opened with an update of TimelineReceiver 5 that was given
\* the payload cached in the first file, the index staying where it was
C39_Witness ==
    /\ target_timeline_ids = <<7, 8>>
    /\ Len(ed_input) = 2
    /\ ed_cursor = [file |-> 2, record |-> 2, has_seen_cache_ended |-> FALSE]
    /\ current_timeline_index = 1
    /\ 5 \in DOMAIN modified_states
    /\ modified_states[5].timeline_id = 7
    /\ read_packet(ed_input[2][1]).frames[1].payload.timeline_id = 1
    /\ read_packet(ed_output[2][1]).frames[1].payload = modified_states[5]

-----------------------------------------------------------------------------
(* SpecBuffer: PacketsBufferReader (proto/reader.rs 416-568) with limits,   *)
(* on a queue of files that open and whose records all decode; a file is    *)
(* the number of its packets, a packet its file and its place in the file.  *)

BufferFiles == 3
BufferPackets == 2
\* a limit beyond the packets of any queue, as the default usize::MAX is
MaxLimit == 7
\* calls of read_packet in a run
MaxReads == 8

LimitValues == {0, 1, 2, MaxLimit}

BufferQueues == UNION {[1..n -> 0..BufferPackets] : n \in 0..BufferFiles}

\* The reader as a record, with the files it has opened
BufferNow ==
    [current_reader |-> current_reader, file_entries |-> file_entries,
     limits |-> limits, total_packets_read |-> total_packets_read,
     files_processed |-> files_processed,
     current_file_packets |-> current_file_packets, opened |-> pb_opened]

\* A check_limits that lets one packet past each limit
CheckLimitsPast(r) ==
    \/ r.total_packets_read > r.limits.max_packets
    \/ r.current_file_packets > r.limits.max_packets_per_file

\* check_limits (proto/reader.rs 486-498)
check_limits(r) ==
    \/ r.total_packets_read >= r.limits.max_packets
    \/ r.current_file_packets >= r.limits.max_packets_per_file

\* open_next_file (proto/reader.rs 501-514)
open_next_file(r) ==
    IF r.file_entries # <<>>
    THEN [ok |-> TRUE,
          reader |-> [r EXCEPT !.current_file_packets = 0,
                               !.current_reader =
                                    <<[file |-> Head(r.file_entries), read |-> 0]>>,
                               !.file_entries = Tail(@),
                               !.files_processed = @ + 1,
                               !.opened = Append(@, Head(r.file_entries))]]
    ELSE [ok |-> FALSE, reader |-> [r EXCEPT !.current_file_packets = 0]]

\* Whether the reader of the open file has a packet left (proto/reader.rs 545)
HasPacket(r) ==
    /\ r.current_reader # <<>>
    /\ r.current_reader[1].read < pb_queue[r.current_reader[1].file]

\* Some(packet) of the open file (proto/reader.rs 546-551)
TakePacket(r) ==
    [reader |-> [r EXCEPT !.current_reader[1].read = @ + 1,
                          !.total_packets_read = @ + 1,
                          !.current_file_packets = @ + 1],
     result |-> <<[file |-> r.current_reader[1].file,
                   index |-> r.current_reader[1].read + 1]>>]

\* The reader after the limit check of one turn of the loop, the open file
\* closed when its limit is reached (proto/reader.rs 534-537)
AfterLimitCheck(r) ==
    IF check_limits(r) THEN [r EXCEPT !.current_reader = <<>>] ELSE r

\* PacketsBufferReader::read_packet (proto/reader.rs 531-568): the reader
\* after the call and what the call returned, <<>> for None
RECURSIVE buffer_read_packet(_)
buffer_read_packet(r) ==
    IF check_limits(r)
       /\ ~(r.current_file_packets >= r.limits.max_packets_per_file)
    THEN [reader |-> r, result |-> <<>>]
    ELSE IF HasPacket(AfterLimitCheck(r))
    THEN TakePacket(AfterLimitCheck(r))
    ELSE IF open_next_file([AfterLimitCheck(r) EXCEPT !.current_reader = <<>>]).ok
    THEN buffer_read_packet(
            open_next_file([AfterLimitCheck(r) EXCEPT !.current_reader = <<>>]).reader)
    ELSE [reader |->
            open_next_file([AfterLimitCheck(r) EXCEPT !.current_reader = <<>>]).reader,
          result |-> <<>>]

BufferBecomes(call) ==
    /\ current_reader' = call.reader.current_reader
    /\ file_entries' = call.reader.file_entries
    /\ total_packets_read' = call.reader.total_packets_read
    /\ files_processed' = call.reader.files_processed
    /\ current_file_packets' = call.reader.current_file_packets
    /\ pb_opened' = call.reader.opened
    /\ pb_results' = Append(pb_results, call.result)

\* One call of read_packet
BufferReadPacket ==
    /\ Len(pb_results) < MaxReads
    /\ BufferBecomes(buffer_read_packet(BufferNow))
    /\ UNCHANGED <<limits, pb_queue>>
    /\ UNCHANGED <<convAll, codecVars, clientVars, mixedVars, packetVars,
                   editorVars, spreadVars, analyzeVars, mergeVars>>

InitBuffer ==
    /\ ConvInit(FALSE, NoTime, NoTime, NoTime, FALSE, 0)
    /\ CodecIdle
    /\ ClientIdle
    /\ MixedIdle
    /\ PacketIdle
    /\ EditorIdle
    /\ SpreadIdle
    /\ AnalyzeIdle
    /\ MergeIdle
    /\ \E queue \in BufferQueues :
       \E max_packets \in LimitValues, max_files \in LimitValues,
          max_packets_per_file \in LimitValues :
            BufferNew(queue, ReaderLimits(max_packets, max_files, max_packets_per_file))

NextBuffer == BufferReadPacket

SpecBuffer == InitBuffer /\ [][NextBuffer]_vars

\* The packets read_packet has returned, in the order of the calls
ReturnedPackets ==
    [k \in 1..Len(SelectSeq(pb_results, LAMBDA res : res # <<>>)) |->
        SelectSeq(pb_results, LAMBDA res : res # <<>>)[k][1]]

ReturnedFrom(f) == {k \in 1..Len(ReturnedPackets) : ReturnedPackets[k].file = f}

\* Queue order, and file order within a file
InQueueOrder ==
    \A j \in 1..Len(ReturnedPackets) : \A k \in 1..(j - 1) :
        \/ ReturnedPackets[k].file < ReturnedPackets[j].file
        \/ /\ ReturnedPackets[k].file = ReturnedPackets[j].file
           /\ ReturnedPackets[k].index < ReturnedPackets[j].index

EndOfStreamStays ==
    \A j \in 1..Len(pb_results) : \A k \in 1..(j - 1) :
        pb_results[k] = <<>> => pb_results[j] = <<>>

\* C40: for any limits and any file queue, read_packet never returns more
\* than max_packets packets in total, never more than max_packets_per_file
\* from one file, and never opens more than max_files files; the packets
\* returned are in queue order and, within a file, in file order;
\* total_packets_read is the number of packets returned; and after
\* end-of-stream every later call returns end-of-stream.
C40_LimitsOrderAndEndOfStream ==
    /\ Len(ReturnedPackets) <= limits.max_packets
    /\ \A f \in 1..Len(pb_queue) :
            Cardinality(ReturnedFrom(f)) <= limits.max_packets_per_file
    /\ Len(pb_opened) <= limits.max_files
    /\ InQueueOrder
    /\ total_packets_read = Len(ReturnedPackets)
    /\ EndOfStreamStays

\* Three files of two packets under limits of 2 packets, 2 files and 1
\* packet per file: the first packet of the first file, the first of the
\* second, then end-of-stream twice, the third file never opened
C40_Witness ==
    /\ pb_queue = <<2, 2, 2>>
    /\ limits = ReaderLimits(2, 2, 1)
    /\ pb_opened = <<1, 2>>
    /\ pb_results = <<<<[file |-> 1, index |-> 1]>>, <<[file |-> 2, index |-> 1]>>,
                      <<>>, <<>>>>

=============================================================================
